---- MODULE Spec2Model ----
(***************************************************************************)
(* A model of package keyval (src/keyval.go, lines 1-615): the duplicate-  *)
(* key resolver ProcessKVs, the type inferencer Populate / toSlices /      *)
(* toDate, the query layer (Get, GetMultiple, Missing, Present, Unknown),  *)
(* the schema validator CheckLegals and the file reader ReadKV2Slc.        *)
(*                                                                         *)
(* A Go string is a sequence of one-character strings.  A Go pointer or    *)
(* slice that may be nil is an option: <<>> is nil, <<x>> is non-nil x.    *)
(***************************************************************************)
EXTENDS Integers, Sequences, FiniteSets, TLC

VARIABLES
    ListDelim,  \* the package variable ListDelim (keyval.go:68)
    keys,       \* ProcessKVs: the keys argument (None when a nil slice)
    vals,       \* ProcessKVs: the vals argument (None when a nil slice)
    indx,       \* ProcessKVs: the loop index, 0-based as in the code
    kv,         \* the KeyVal map under construction / returned
    pc,         \* where the program is
    valStr,     \* Populate: the argument of the call under study
    val,        \* Populate: the returned *Value, None before the call
    query,      \* the last query-layer call and what it returned
    files       \* the file system: a function from the paths there are to contents

vars == <<ListDelim, keys, vals, indx, kv, pc, valStr, val, query, files>>

-----------------------------------------------------------------------------
(* Options: nil and non-nil.                                               *)

None == <<>>

Some(x) == <<x>>

IsSome(o) == o # <<>>

-----------------------------------------------------------------------------
(* package strings                                                         *)

Digits == <<"0", "1", "2", "3", "4", "5", "6", "7", "8", "9">>

UpperLetters == <<"A", "B", "C", "D", "E", "F", "G", "H", "I", "J", "K", "L", "M",
                  "N", "O", "P", "Q", "R", "S", "T", "U", "V", "W", "X", "Y", "Z">>

LowerLetters == <<"a", "b", "c", "d", "e", "f", "g", "h", "i", "j", "k", "l", "m",
                  "n", "o", "p", "q", "r", "s", "t", "u", "v", "w", "x", "y", "z">>

IsDigit(c) == \E i \in 1..10 : Digits[i] = c

DigitVal(c) == (CHOOSE i \in 1..10 : Digits[i] = c) - 1

\* ASCII lower-casing of one character
Lower(c) ==
    IF \E i \in 1..26 : UpperLetters[i] = c
    THEN LowerLetters[CHOOSE i \in 1..26 : UpperLetters[i] = c]
    ELSE c

LowerStr(s) == [i \in 1..Len(s) |-> Lower(s[i])]

\* s[from:] with a 0-based offset, as Go slices
Drop(s, n) == SubSeq(s, n + 1, Len(s))

\* s[:n]
Take(s, n) == SubSeq(s, 1, n)

HasPrefix(s, p) == Len(s) >= Len(p) /\ Take(s, Len(p)) = p

\* strings.Index: the 0-based offset of the first occurrence of sub, -1 if none
Index(s, sub) ==
    LET hits == {i \in 0..(Len(s) - Len(sub)) : SubSeq(s, i + 1, i + Len(sub)) = sub}
    IN  IF hits = {} THEN -1 ELSE CHOOSE i \in hits : \A j \in hits : i <= j

Contains(s, sub) == Index(s, sub) >= 0

\* strings.TrimLeft(s, cutset) for a cutset given as a set of characters
RECURSIVE TrimLeft(_, _)
TrimLeft(s, cut) ==
    IF s # <<>> /\ Head(s) \in cut THEN TrimLeft(Tail(s), cut) ELSE s

RECURSIVE TrimRight(_, _)
TrimRight(s, cut) ==
    IF s # <<>> /\ s[Len(s)] \in cut THEN TrimRight(Take(s, Len(s) - 1), cut) ELSE s

\* strings.ReplaceAll(s, c, "") for a one-character c
RemoveChar(s, c) == SelectSeq(s, LAMBDA x : x # c)

\* strings.Split(s, sep) for a non-empty sep: always at least one element
RECURSIVE Split(_, _)
Split(s, sep) ==
    LET i == Index(s, sep)
    IN  IF i < 0 THEN <<s>>
        ELSE <<Take(s, i)>> \o Split(Drop(s, i + Len(sep)), sep)

\* fmt.Sprintf("%d", n) for n >= 0
RECURSIVE Itoa(_)
Itoa(n) == IF n < 10 THEN <<Digits[n + 1]>> ELSE Itoa(n \div 10) \o <<Digits[(n % 10) + 1]>>

\* CleanString removes all the characters in cutSet from str
RECURSIVE CleanString(_, _)
CleanString(str, cutSet) ==
    IF cutSet = <<>> THEN str
    ELSE CleanString(RemoveChar(str, Head(cutSet)), Tail(cutSet))

-----------------------------------------------------------------------------
(* package strconv.  An integer is kept as its canonical decimal numeral   *)
(* [neg, digits] (no leading zeros, zero is [FALSE, <<"0">>]); a float64   *)
(* as the canonical decimal 0.mant * 10^exp (mant without leading or       *)
(* trailing zeros), or as inf / nan.  Hexadecimal mantissas (0x...p...)    *)
(* and digit-separating underscores are not modelled.                      *)

AllDigits(s) == \A i \in 1..Len(s) : IsDigit(s[i])

RECURSIVE StripLeadingZeros(_)
StripLeadingZeros(d) ==
    IF d # <<>> /\ Head(d) = "0" THEN StripLeadingZeros(Tail(d)) ELSE d

RECURSIVE StripTrailingZeros(_)
StripTrailingZeros(d) ==
    IF d # <<>> /\ d[Len(d)] = "0" THEN StripTrailingZeros(Take(d, Len(d) - 1)) ELSE d

\* a < b for digit sequences read as decimal fractions 0.a and 0.b
RECURSIVE FracLess(_, _)
FracLess(a, b) ==
    IF b = <<>> THEN FALSE
    ELSE IF a = <<>> THEN StripTrailingZeros(b) # <<>>
    ELSE IF Head(a) # Head(b) THEN DigitVal(Head(a)) < DigitVal(Head(b))
    ELSE FracLess(Tail(a), Tail(b))

\* a <= b for numerals without leading zeros
NumeralLeq(a, b) ==
    \/ Len(a) < Len(b)
    \/ Len(a) = Len(b) /\ ~FracLess(b, a)

MaxInt64 == <<"9","2","2","3","3","7","2","0","3","6","8","5","4","7","7","5","8","0","7">>

MinInt64Magnitude == <<"9","2","2","3","3","7","2","0","3","6","8","5","4","7","7","5","8","0","8">>

\* the digits of math.MaxFloat64 = 1.7976931348623157e308, plus half an ulp
MaxFloat64Digits == <<"1","7","9","7","6","9","3","1","3","4","8","6","2","3","1","5","8">>

MaxFloat64Exp == 309

\* ParseInt once the sign is cut off: the digits, and the range of an int64
parseIntBody(neg, body, mag) ==
    IF body = <<>> \/ ~AllDigits(body) THEN None
    ELSE IF mag = <<>> THEN Some([neg |-> FALSE, digits |-> <<"0">>])
    ELSE IF ~NumeralLeq(mag, IF neg THEN MinInt64Magnitude ELSE MaxInt64) THEN None
    ELSE Some([neg |-> neg, digits |-> mag])

\* the text after an optional sign
Unsigned(s) == IF s # <<>> /\ Head(s) \in {"+", "-"} THEN Tail(s) ELSE s

\* strconv.ParseInt(s, 10, 64): Some(integer) when err == nil, None otherwise
ParseInt(s) ==
    IF s = <<>> THEN None
    ELSE parseIntBody(Head(s) = "-", Unsigned(s), StripLeadingZeros(Unsigned(s)))

\* the value of a numeral as a number, for numerals that are small enough
RECURSIVE Atoi(_)
Atoi(d) == IF d = <<>> THEN 0 ELSE Atoi(Take(d, Len(d) - 1)) * 10 + DigitVal(d[Len(d)])

\* the length of the longest prefix of s made of digits
RECURSIVE SpanDigits(_)
SpanDigits(s) == IF s # <<>> /\ IsDigit(Head(s)) THEN 1 + SpanDigits(Tail(s)) ELSE 0

\* strconv's special, on the lower-cased text after the sign: inf, infinity, nan
specialOf(signed, neg, body) ==
    IF body \in {<<"i","n","f">>, <<"i","n","f","i","n","i","t","y">>}
    THEN Some([kind |-> "inf", neg |-> neg, mant |-> <<>>, exp |-> 0])
    ELSE IF ~signed /\ body = <<"n","a","n">>
    THEN Some([kind |-> "nan", neg |-> FALSE, mant |-> <<>>, exp |-> 0])
    ELSE None

Special(s) ==
    IF s = <<>> THEN None
    ELSE specialOf(Head(s) \in {"+", "-"}, Head(s) = "-", LowerStr(Unsigned(s)))

\* readFloat's exponent accumulation: e = e*10 + digit while e < 10000
RECURSIVE ExpValue(_, _)
ExpValue(d, e) ==
    IF d = <<>> THEN e
    ELSE ExpValue(Tail(d), IF e < 10000 THEN e * 10 + DigitVal(Head(d)) ELSE e)

\* the float64 0.mant * 10^exp; None when out of range
normFloat(neg, mant, exp) ==
    IF mant = <<>> THEN Some([kind |-> "num", neg |-> neg, mant |-> <<>>, exp |-> 0])
    ELSE IF exp > MaxFloat64Exp \/ (exp = MaxFloat64Exp /\ ~FracLess(mant, MaxFloat64Digits))
    THEN None
    ELSE Some([kind |-> "num", neg |-> neg, mant |-> mant, exp |-> exp])

\* all: the digits of the mantissa; cut: all without its leading zeros
makeFloat(neg, intd, all, cut, e) ==
    normFloat(neg, StripTrailingZeros(cut), Len(intd) - (Len(all) - Len(cut)) + e)

\* readFloat after the exponent character and its sign
readExpDigits(neg, intd, fracd, esign, edig) ==
    IF edig = <<>> \/ ~AllDigits(edig) THEN None
    ELSE makeFloat(neg, intd, intd \o fracd, StripLeadingZeros(intd \o fracd),
                   esign * ExpValue(edig, 0))

\* readFloat after the mantissa: the end of the text, or an exponent
readExp(neg, intd, fracd, rest) ==
    IF Len(intd) + Len(fracd) = 0 THEN None
    ELSE IF rest = <<>>
    THEN makeFloat(neg, intd, intd \o fracd, StripLeadingZeros(intd \o fracd), 0)
    ELSE IF Lower(Head(rest)) # "e" \/ Len(rest) < 2 THEN None
    ELSE readExpDigits(neg, intd, fracd, IF rest[2] = "-" THEN -1 ELSE 1, Unsigned(Tail(rest)))

\* readFloat after the point: nFrac digits follow it
readFrac(neg, intd, afterDot, nFrac) ==
    readExp(neg, intd, Take(afterDot, nFrac), Drop(afterDot, nFrac))

\* readFloat after the sign: nInt digits, then maybe a point
readMant(neg, body, nInt) ==
    IF nInt < Len(body) /\ body[nInt + 1] = "."
    THEN readFrac(neg, Take(body, nInt), Drop(body, nInt + 1), SpanDigits(Drop(body, nInt + 1)))
    ELSE readExp(neg, Take(body, nInt), <<>>, Drop(body, nInt))

floatOf(s, sp) ==
    IF IsSome(sp) THEN sp ELSE readMant(Head(s) = "-", Unsigned(s), SpanDigits(Unsigned(s)))

\* strconv.ParseFloat(s, 64): Some(float) when err == nil, None otherwise
ParseFloat(s) == IF s = <<>> THEN None ELSE floatOf(s, Special(s))

-----------------------------------------------------------------------------
(* package time: time.Parse(layout, value), for the layouts toDate uses.   *)
(* A layout is the sequence of chunks nextStdChunk cuts it into: literal   *)
(* text and std elements.  A time is [year, month, day, hour, min, sec,    *)
(* zone] (zone: the offset in minutes).                                    *)

Lit(text) == [std |-> "lit", text |-> text]

Std(name) == [std |-> name, text |-> <<>>]

shortMonthNames == <<
    <<"J","a","n">>, <<"F","e","b">>, <<"M","a","r">>, <<"A","p","r">>,
    <<"M","a","y">>, <<"J","u","n">>, <<"J","u","l">>, <<"A","u","g">>,
    <<"S","e","p">>, <<"O","c","t">>, <<"N","o","v">>, <<"D","e","c">> >>

longMonthNames == <<
    <<"J","a","n","u","a","r","y">>, <<"F","e","b","r","u","a","r","y">>,
    <<"M","a","r","c","h">>, <<"A","p","r","i","l">>, <<"M","a","y">>,
    <<"J","u","n","e">>, <<"J","u","l","y">>, <<"A","u","g","u","s","t">>,
    <<"S","e","p","t","e","m","b","e","r">>, <<"O","c","t","o","b","e","r">>,
    <<"N","o","v","e","m","b","e","r">>, <<"D","e","c","e","m","b","e","r">> >>

\* time.skip: value without the literal prefix; a space of the layout stands for
\* any run of spaces of the value, also none at the value's end
RECURSIVE skip(_, _)
skip(value, prefix) ==
    IF prefix = <<>> THEN Some(value)
    ELSE IF Head(prefix) = " "
    THEN IF value # <<>> /\ Head(value) # " " THEN None
         ELSE skip(TrimLeft(value, {" "}), TrimLeft(prefix, {" "}))
    ELSE IF value = <<>> \/ Head(value) # Head(prefix) THEN None
    ELSE skip(Tail(value), Tail(prefix))

\* time.getnum: a one- or two-digit number (two digits when fixed) and the rest
getnum(s, fixed) ==
    IF s = <<>> \/ ~IsDigit(s[1]) THEN None
    ELSE IF Len(s) < 2 \/ ~IsDigit(s[2])
    THEN IF fixed THEN None ELSE Some([n |-> DigitVal(s[1]), rest |-> Tail(s)])
    ELSE Some([n |-> DigitVal(s[1]) * 10 + DigitVal(s[2]), rest |-> Drop(s, 2)])

\* the 1-based indices of the names that value starts with, whatever the case
matching(tab, value) ==
    {i \in 1..Len(tab) :
        Len(value) >= Len(tab[i]) /\ LowerStr(Take(value, Len(tab[i]))) = LowerStr(tab[i])}

firstOf(tab, value, hits) ==
    IF hits = {} THEN None
    ELSE Some([n    |-> CHOOSE i \in hits : \A j \in hits : i <= j,
               rest |-> Drop(value, Len(tab[CHOOSE i \in hits : \A j \in hits : i <= j]))])

\* time.lookup: the index of the first name that value starts with, and the rest
lookup(tab, value) == firstOf(tab, value, matching(tab, value))

isLeap(year) == year % 4 = 0 /\ (year % 100 # 0 \/ year % 400 = 0)

daysIn(month, year) ==
    IF month = 2 THEN (IF isLeap(year) THEN 29 ELSE 28)
    ELSE IF month \in {4, 6, 9, 11} THEN 30 ELSE 31

zoneOf(sign, hr, mm, rest) ==
    IF ~IsSome(hr) \/ ~IsSome(mm) THEN None
    ELSE IF hr[1].n > 24 \/ mm[1].n > 60 THEN None
    ELSE Some([n |-> sign * (hr[1].n * 60 + mm[1].n), rest |-> rest])

\* the time zone element of RFC3339, Z07:00: Z, or a sign and hh:mm
parseZone(value) ==
    IF value # <<>> /\ Head(value) = "Z" THEN Some([n |-> 0, rest |-> Tail(value)])
    ELSE IF Len(value) < 6 THEN None
    ELSE IF value[4] # ":" \/ value[1] \notin {"+", "-"} THEN None
    ELSE zoneOf(IF value[1] = "-" THEN -1 ELSE 1, getnum(SubSeq(value, 2, 3), TRUE),
                getnum(SubSeq(value, 5, 6), TRUE), Drop(value, 6))

\* the four digits of a year
yearnum(value) ==
    IF Len(value) < 4 THEN None
    ELSE IF ~AllDigits(Take(value, 4)) THEN None
    ELSE Some([n |-> Atoi(Take(value, 4)), rest |-> Drop(value, 4)])

\* a number read from the value that must lie in lo..hi (a range error otherwise)
inRange(r, lo, hi) ==
    IF ~IsSome(r) THEN None
    ELSE IF r[1].n < lo \/ hi < r[1].n THEN None
    ELSE r

\* the number one std element of the layout reads from value, and the rest
numFor(std, value) ==
    CASE std = "stdLongYear"       -> yearnum(value)
      [] std = "stdZeroMonth"      -> inRange(getnum(value, TRUE), 1, 12)
      [] std = "stdNumMonth"       -> inRange(getnum(value, FALSE), 1, 12)
      [] std = "stdMonth"          -> lookup(shortMonthNames, value)
      [] std = "stdLongMonth"      -> lookup(longMonthNames, value)
      [] std = "stdZeroDay"        -> getnum(value, TRUE)
      [] std = "stdDay"            -> getnum(value, FALSE)
      [] std = "stdHour"           -> inRange(getnum(value, FALSE), 0, 23)
      [] std = "stdZeroMinute"     -> inRange(getnum(value, TRUE), 0, 59)
      [] std = "stdZeroSecond"     -> inRange(getnum(value, TRUE), 0, 59)
      [] std = "stdISO8601ColonTZ" -> parseZone(value)

\* the field of the time that a std element sets
setField(std, t, n) ==
    CASE std = "stdLongYear"                                    -> [t EXCEPT !.year = n]
      [] std \in {"stdZeroMonth", "stdNumMonth", "stdMonth", "stdLongMonth"} -> [t EXCEPT !.month = n]
      [] std \in {"stdZeroDay", "stdDay"}                       -> [t EXCEPT !.day = n]
      [] std = "stdHour"                                        -> [t EXCEPT !.hour = n]
      [] std = "stdZeroMinute"                                  -> [t EXCEPT !.min = n]
      [] std = "stdZeroSecond"                                  -> [t EXCEPT !.sec = n]
      [] std = "stdISO8601ColonTZ"                              -> [t EXCEPT !.zone = n]

\* the end of the layout: no text may be left, and the day must be one of the month
finish(value, t, d) ==
    IF value # <<>> THEN None
    ELSE IF d < 1 \/ d > daysIn(t.month, t.year) THEN None
    ELSE Some([t EXCEPT !.day = d])

RECURSIVE parseChunks(_, _, _)

afterLit(layout, r, t) == IF ~IsSome(r) THEN None ELSE parseChunks(layout, r[1], t)

afterStd(layout, std, r, t) ==
    IF ~IsSome(r) THEN None ELSE parseChunks(layout, r[1].rest, setField(std, t, r[1].n))

\* the loop of time.Parse over the chunks of the layout
parseChunks(layout, value, t) ==
    IF layout = <<>> THEN finish(value, t, IF t.day < 0 THEN 1 ELSE t.day)
    ELSE IF Head(layout).std = "lit"
    THEN afterLit(Tail(layout), skip(value, Head(layout).text), t)
    ELSE afterStd(Tail(layout), Head(layout).std, numFor(Head(layout).std, value), t)

\* time.Parse(layout, value): Some(time) when err == nil.  Fractional seconds
\* after the seconds of RFC3339 are not modelled.
Parse(layout, value) ==
    parseChunks(layout, value,
                [year |-> 0, month |-> 1, day |-> -1, hour |-> 0, min |-> 0, sec |-> 0, zone |-> 0])

-----------------------------------------------------------------------------
(* The type inferencer: DataType, Value, toDate, toSlices, Populate.       *)

String == "String"

Float == "Float"

\* the DataType Int (Int itself is the set of integers in TLA+)
IntType == "Int"

Date == "Date"

SliceStr == "SliceStr"

SliceFloat == "SliceFloat"

SliceInt == "SliceInt"

SliceDate == "SliceDate"

InValid == "InValid"

\* the layouts of toDate, in its order
fmts == <<
    \* "2006-01-02"
    <<Std("stdLongYear"), Lit(<<"-">>), Std("stdZeroMonth"), Lit(<<"-">>), Std("stdZeroDay")>>,
    \* "2006-1-2"
    <<Std("stdLongYear"), Lit(<<"-">>), Std("stdNumMonth"), Lit(<<"-">>), Std("stdDay")>>,
    \* "2006/01/02"
    <<Std("stdLongYear"), Lit(<<"/">>), Std("stdZeroMonth"), Lit(<<"/">>), Std("stdZeroDay")>>,
    \* "2006/1/2"
    <<Std("stdLongYear"), Lit(<<"/">>), Std("stdNumMonth"), Lit(<<"/">>), Std("stdDay")>>,
    \* "20060102"
    <<Std("stdLongYear"), Std("stdZeroMonth"), Std("stdZeroDay")>>,
    \* "01022006"
    <<Std("stdZeroMonth"), Std("stdZeroDay"), Std("stdLongYear")>>,
    \* "01/02/2006"
    <<Std("stdZeroMonth"), Lit(<<"/">>), Std("stdZeroDay"), Lit(<<"/">>), Std("stdLongYear")>>,
    \* "1/2/2006"
    <<Std("stdNumMonth"), Lit(<<"/">>), Std("stdDay"), Lit(<<"/">>), Std("stdLongYear")>>,
    \* "01-02-2006"
    <<Std("stdZeroMonth"), Lit(<<"-">>), Std("stdZeroDay"), Lit(<<"-">>), Std("stdLongYear")>>,
    \* "1-2-2006"
    <<Std("stdNumMonth"), Lit(<<"-">>), Std("stdDay"), Lit(<<"-">>), Std("stdLongYear")>>,
    \* "200601"
    <<Std("stdLongYear"), Std("stdZeroMonth")>>,
    \* "Jan 2 2006"
    <<Std("stdMonth"), Lit(<<" ">>), Std("stdDay"), Lit(<<" ">>), Std("stdLongYear")>>,
    \* "January 2 2006"
    <<Std("stdLongMonth"), Lit(<<" ">>), Std("stdDay"), Lit(<<" ">>), Std("stdLongYear")>>,
    \* "Jan 2, 2006"
    <<Std("stdMonth"), Lit(<<" ">>), Std("stdDay"), Lit(<<",", " ">>), Std("stdLongYear")>>,
    \* "January 2, 2006"
    <<Std("stdLongMonth"), Lit(<<" ">>), Std("stdDay"), Lit(<<",", " ">>), Std("stdLongYear")>>,
    \* time.RFC3339 = "2006-01-02T15:04:05Z07:00"
    <<Std("stdLongYear"), Lit(<<"-">>), Std("stdZeroMonth"), Lit(<<"-">>), Std("stdZeroDay"),
      Lit(<<"T">>), Std("stdHour"), Lit(<<":">>), Std("stdZeroMinute"), Lit(<<":">>),
      Std("stdZeroSecond"), Std("stdISO8601ColonTZ")>> >>

RECURSIVE toDateFrom(_, _)

firstParse(r, trim, i) == IF IsSome(r) THEN r ELSE toDateFrom(trim, i + 1)

\* the loop of toDate over fmts[i..]: the first layout that parses wins
toDateFrom(trim, i) ==
    IF i > Len(fmts) THEN None ELSE firstParse(Parse(fmts[i], trim), trim, i)

\* toDate attempts to convert inStr to time.Time
toDate(inStr) == toDateFrom(TrimRight(TrimLeft(inStr, {" "}), {" "}), 1)

\* the elements of ps that are non-nil, in order: what the appends of toSlices collect
RECURSIVE Collect(_)
Collect(ps) ==
    IF ps = <<>> THEN <<>>
    ELSE (IF IsSome(Head(ps)) THEN <<Head(ps)[1]>> ELSE <<>>) \o Collect(Tail(ps))

\* keyval.go:464-466: every element trimmed of leading and trailing spaces
trimAll(parts) == [i \in 1..Len(parts) |-> TrimRight(TrimLeft(parts[i], {" "}), {" "})]

\* a toSlices that keeps a typed slice which some elements did not enter
typedSlices_KeepPartial(asStr, asInt, asFloat, asDate) ==
    [asStr   |-> Some(asStr),
     asInt   |-> IF asInt = <<>> THEN None ELSE Some(asInt),
     asFloat |-> IF asFloat = <<>> THEN None ELSE Some(asFloat),
     asDate  |-> IF asDate = <<>> THEN None ELSE Some(asDate)]

\* keyval.go:485-497: a typed slice that is shorter than asStr is dropped
typedSlices(asStr, asInt, asFloat, asDate) ==
    [asStr   |-> Some(asStr),
     asInt   |-> IF Len(asInt) # Len(asStr) THEN None ELSE Some(asInt),
     asFloat |-> IF Len(asFloat) # Len(asStr) THEN None ELSE Some(asFloat),
     asDate  |-> IF Len(asDate) # Len(asStr) THEN None ELSE Some(asDate)]

\* keyval.go:468-483: the elements that parse are appended to the typed slices
slicesOf(asStr) ==
    typedSlices(asStr,
                Collect([i \in 1..Len(asStr) |-> ParseInt(RemoveChar(asStr[i], " "))]),
                Collect([i \in 1..Len(asStr) |-> ParseFloat(RemoveChar(asStr[i], " "))]),
                Collect([i \in 1..Len(asStr) |-> toDate(asStr[i])]))

\* toSlices converts input into all the slice types it supports.
toSlices(input) == slicesOf(trimAll(Split(input, ListDelim)))

\* len(slc) of a slice that may be nil
SliceLen(slc) == IF IsSome(slc) THEN Len(slc[1]) ELSE 0

\* a Populate that tries the float after the int, so that Float overrides Int
unaryBest_FloatOverInt(valFloat, valInt, valDt) ==
    IF IsSome(valDt) THEN Date
    ELSE IF IsSome(valFloat) THEN Float
    ELSE IF IsSome(valInt) THEN IntType
    ELSE String

\* keyval.go:418-435: the best unary type, each success overriding the one before
unaryBest(valFloat, valInt, valDt) ==
    IF IsSome(valDt) THEN Date
    ELSE IF IsSome(valInt) THEN IntType
    ELSE IF IsSome(valFloat) THEN Float
    ELSE String

\* a Populate without the guards on the slice lengths
sliceBest_NoLenGuard(slc, unary) ==
    IF IsSome(slc.asDate) THEN SliceDate
    ELSE IF IsSome(slc.asInt) THEN SliceInt
    ELSE IF IsSome(slc.asFloat) THEN SliceFloat
    ELSE SliceStr

\* a Populate that tests the float slice after the int slice
sliceBest_FloatOverInt(slc, unary) ==
    IF SliceLen(slc.asDate) > 1 THEN SliceDate
    ELSE IF SliceLen(slc.asFloat) > 1 THEN SliceFloat
    ELSE IF SliceLen(slc.asInt) > 1 THEN SliceInt
    ELSE IF SliceLen(slc.asStr) > 1 THEN SliceStr
    ELSE unary

\* a Populate that leaves a unary Date alone, whatever the slices are
sliceBest_UnaryDateWins(slc, unary) ==
    IF unary = Date THEN Date
    ELSE IF SliceLen(slc.asDate) > 1 THEN SliceDate
    ELSE IF SliceLen(slc.asInt) > 1 THEN SliceInt
    ELSE IF SliceLen(slc.asFloat) > 1 THEN SliceFloat
    ELSE IF SliceLen(slc.asStr) > 1 THEN SliceStr
    ELSE unary

\* keyval.go:439-454: the best slice type, each success overriding the one before
sliceBest(slc, unary) ==
    IF SliceLen(slc.asDate) > 1 THEN SliceDate
    ELSE IF SliceLen(slc.asInt) > 1 THEN SliceInt
    ELSE IF SliceLen(slc.asFloat) > 1 THEN SliceFloat
    ELSE IF SliceLen(slc.asStr) > 1 THEN SliceStr
    ELSE unary

\* a Populate that trims valStr before it keeps it as AsString
valueOf_Trimmed(str, valFloat, valInt, valDt, slc) ==
    [AsString |-> TrimRight(TrimLeft(str, {" "}), {" "}),
     AsInt    |-> valInt,
     AsFloat  |-> valFloat,
     AsDate   |-> valDt,
     AsSliceS |-> slc.asStr,
     AsSliceI |-> slc.asInt,
     AsSliceF |-> slc.asFloat,
     AsSliceD |-> slc.asDate,
     BestType |-> sliceBest(slc, unaryBest(valFloat, valInt, valDt))]

\* the Value that Populate builds from the parses of valStr
valueOf(str, valFloat, valInt, valDt, slc) ==
    [AsString |-> str,
     AsInt    |-> valInt,
     AsFloat  |-> valFloat,
     AsDate   |-> valDt,
     AsSliceS |-> IF IsSome(slc.asStr) THEN slc.asStr ELSE None,
     AsSliceI |-> IF IsSome(slc.asStr) THEN slc.asInt ELSE None,
     AsSliceF |-> IF IsSome(slc.asStr) THEN slc.asFloat ELSE None,
     AsSliceD |-> IF IsSome(slc.asStr) THEN slc.asDate ELSE None,
     BestType |-> IF IsSome(slc.asStr)
                  THEN sliceBest(slc, unaryBest(valFloat, valInt, valDt))
                  ELSE unaryBest(valFloat, valInt, valDt)]

\* Populate populates all the legal values that valStr can accommodate.
Populate(str) ==
    valueOf(str, ParseFloat(RemoveChar(str, " ")), ParseInt(RemoveChar(str, " ")),
            toDate(str), toSlices(str))

-----------------------------------------------------------------------------
(* The KeyVal map: a function from the keys present to *Value options.     *)

EmptyMap == <<>>

HasKey(m, k) == k \in DOMAIN m

\* m[k] of a Go map of pointers: nil when k is not a key
MapGet(m, k) == IF k \in DOMAIN m THEN m[k] ELSE None

MapSet(m, k, v) == [x \in (DOMAIN m) \cup {k} |-> IF x = k THEN v ELSE m[x]]

MapDelete(m, k) == [x \in (DOMAIN m) \ {k} |-> m[x]]

-----------------------------------------------------------------------------
(* ProcessKVs                                                              *)

\* the scan for the first unused key: for _, ok := kv[keyTest]; ok; ... { ind++ ... }
RECURSIVE dupScan(_, _, _, _, _)
dupScan(m, base, ind, keyTest, key) ==
    IF HasKey(m, keyTest)
    THEN dupScan(m, base, ind + 1, base \o Itoa(ind + 1), base \o Itoa(ind + 1))
    ELSE [ind |-> ind, key |-> key]

\* a ProcessKVs that never renames the first instance of a duplicated key
insertAt_NoRename(m, base, found, v) == MapSet(m, found.key, Some(v))

\* a ProcessKVs that renames the first instance only when base1 is not yet a key
insertAt_KeepLiteral(m, base, found, v) ==
    MapSet(IF found.ind = 2 /\ ~HasKey(m, base \o <<"1">>)
           THEN MapDelete(MapSet(m, base \o <<"1">>, MapGet(m, base)), base)
           ELSE m,
           found.key, Some(v))

\* keyval.go:376-383: the first duplicate renames the first instance, then the
\* value is stored under the key the scan found
insertAt(m, base, found, v) ==
    MapSet(IF found.ind = 2
           THEN MapDelete(MapSet(m, base \o <<"1">>, MapGet(m, base)), base)
           ELSE m,
           found.key, Some(v))

\* one iteration of the loop of ProcessKVs: the map after keys[indx], vals[indx]
ProcessKV(m, base, v) ==
    insertAt(m, base,
             dupScan(m, base, 1, IF ~HasKey(m, base) THEN base \o <<"1">> ELSE base, base),
             Populate(v))

-----------------------------------------------------------------------------
(* The query layer                                                         *)

\* Get returns a value, nil when the key is absent
Get(m, key) == IF ~HasKey(m, key) THEN None ELSE m[key]

\* the loop of GetMultiple from index ind on
RECURSIVE getMultipleFrom(_, _, _, _)
getMultipleFrom(m, root, ind, got) ==
    LET v == MapGet(m, root \o Itoa(ind))
    IN  IF ~IsSome(v) THEN got
        ELSE getMultipleFrom(m, root, ind + 1, Append(got, v))

\* GetMultiple retrieves all the Values of root1, root2, ...: Some(list), or None for nil
GetMultiple(m, root) ==
    LET v == MapGet(m, root \o <<"1">>)
    IN  IF ~IsSome(v)
        THEN IF IsSome(MapGet(m, root)) THEN Some(<<MapGet(m, root)>>) ELSE None
        ELSE Some(getMultipleFrom(m, root, 2, <<v>>))

\* a Missing that asks Get alone, and not GetMultiple
RECURSIVE missingOf_GetOnly(_, _)
missingOf_GetOnly(m, needles) ==
    IF needles = <<>> THEN <<>>
    ELSE (IF ~IsSome(Get(m, Head(needles))) THEN <<Head(needles)>> ELSE <<>>)
            \o missingOf_GetOnly(m, Tail(needles))

\* the loop of Missing over the needles
RECURSIVE missingOf(_, _)
missingOf(m, needles) ==
    IF needles = <<>> THEN <<>>
    ELSE (IF ~IsSome(Get(m, Head(needles))) /\ ~IsSome(GetMultiple(m, Head(needles)))
          THEN <<Head(needles)>> ELSE <<>>) \o missingOf(m, Tail(needles))

\* Missing returns the needles that are not keys: Some(list), or None for nil
Missing(m, needles) ==
    IF needles = <<>> THEN None
    ELSE LET miss == missingOf(m, Split(CleanString(needles, <<" ", "\n", "\t">>), <<",">>))
         IN  IF miss = <<>> THEN None ELSE Some(miss)

\* the loop of Present over the needles
RECURSIVE presentOf(_, _)
presentOf(m, needles) ==
    IF needles = <<>> THEN <<>>
    ELSE (IF IsSome(Get(m, Head(needles))) THEN <<Head(needles)>> ELSE <<>>)
            \o presentOf(m, Tail(needles))

\* nil for the empty slice that nothing was appended to
nilIfEmpty(slc) == IF slc = <<>> THEN None ELSE Some(slc)

\* Present returns the keys in needles that are in kv: Some(list), or None for nil
Present(m, needles) ==
    IF needles = <<>> THEN None
    ELSE nilIfEmpty(presentOf(m, Split(CleanString(needles, <<" ", "\n", "\t">>), ListDelim)))

\* uni ends in * and key starts with what is before the *; uni is not empty
wildcard(uni, key) ==
    /\ uni[Len(uni)] = "*"
    /\ Len(key) >= Len(uni) - 1
    /\ Take(key, Len(uni) - 1) = Take(uni, Len(uni) - 1)

\* the inner loop of Unknown for one key: "found", "novel", or "panic" when
\* uni[len(uni)-1] is evaluated for an empty uni
RECURSIVE univScan(_, _)
univScan(univSlc, key) ==
    IF univSlc = <<>> THEN "novel"
    ELSE IF Head(univSlc) = key THEN "found"
    ELSE IF Head(univSlc) = <<>> THEN "panic"
    ELSE IF wildcard(Head(univSlc), key) THEN "found"
    ELSE univScan(Tail(univSlc), key)

\* the outer loop of Unknown, given what the inner loop says of every key; the
\* order of novel is that of the range over the map, and is not kept
unknownOf(found) ==
    IF \E k \in DOMAIN found : found[k] = "panic"
    THEN [panic |-> TRUE, novel |-> None]
    ELSE [panic |-> FALSE,
          novel |-> IF \A k \in DOMAIN found : found[k] = "found" THEN None
                    ELSE Some({k \in DOMAIN found : found[k] = "novel"})]

\* the universe as Unknown cuts it
univSlcOf(universe) == Split(CleanString(universe, <<" ", "\n", "\t">>), <<",">>)

\* Unknown returns the keys in kv that are not in universe: Some(set), or None for nil
Unknown(m, universe) ==
    IF universe = <<>> THEN [panic |-> FALSE, novel |-> None]
    ELSE unknownOf([k \in DOMAIN m |-> univScan(univSlcOf(universe), k)])

\* strings.Join
RECURSIVE Join(_, _)
Join(elems, sep) ==
    IF elems = <<>> THEN <<>>
    ELSE IF Len(elems) = 1 THEN elems[1]
    ELSE elems[1] \o sep \o Join(Tail(elems), sep)

-----------------------------------------------------------------------------
(* The schema validator                                                    *)

\* the fields and values of the rules that CheckLegals looks for
required == <<"r", "e", "q", "u", "i", "r", "e", "d">>

type == <<"t", "y", "p", "e">>

multiple == <<"m", "u", "l", "t", "i", "p", "l", "e">>

values == <<"v", "a", "l", "u", "e", "s">>

requires == <<"r", "e", "q", "u", "i", "r", "e", "s">>

yes == <<"y", "e", "s">>

int == <<"i", "n", "t">>

\* keyval.go:524-528: the key, field and value of one line of legalKeys; the
\* index expressions kv[1] and fv[1] panic when the line has no ":" or no "-"
legalOf(kvParts, fvParts) ==
    IF Len(kvParts) < 2 \/ Len(fvParts) < 2
    THEN [panic |-> TRUE, key |-> <<>>, field |-> <<>>, val |-> <<>>]
    ELSE [panic |-> FALSE, key |-> kvParts[1], field |-> fvParts[1], val |-> fvParts[2]]

\* one line of legalKeys
legalLine(kvParts) ==
    legalOf(kvParts, IF Len(kvParts) < 2 THEN <<>> ELSE Split(kvParts[2], <<"-">>))

\* the loop of BuildLegals over the lines, the empty ones skipped
RECURSIVE legalsOf(_)
legalsOf(lines) ==
    IF lines = <<>> THEN <<>>
    ELSE (IF Head(lines) = <<>> THEN <<>> ELSE <<legalLine(Split(Head(lines), <<":">>))>>)
            \o legalsOf(Tail(lines))

\* BuildLegals takes the string in legal.txt: the (key, field, val) triples kl, fl, vl
BuildLegals(legalKeys) == legalsOf(Split(legalKeys, <<"\n">>))

\* getLgl returns the value of the first triple of the key and field, "" when none
RECURSIVE getLgl(_, _, _)
getLgl(key, field, lgls) ==
    IF lgls = <<>> THEN <<>>
    ELSE IF Head(lgls).key = key /\ Head(lgls).field = field THEN Head(lgls).val
    ELSE getLgl(key, field, Tail(lgls))

\* keyval.go:556-565: the keys that have a required rule, with a * when they
\* admit duplicates
RECURSIVE uniqueOf(_, _)
uniqueOf(rest, lgls) ==
    IF rest = <<>> THEN <<>>
    ELSE (IF Head(rest).field = required
          THEN <<Head(rest).key
                   \o (IF getLgl(Head(rest).key, multiple, lgls) = yes THEN <<"*">> ELSE <<>>)>>
          ELSE <<>>) \o uniqueOf(Tail(rest), lgls)

\* the results of CheckLegals
NoError == [panic |-> FALSE, err |-> None]

Panic == [panic |-> TRUE, err |-> None]

Errorf(format, text, key, unks) ==
    [panic |-> FALSE, err |-> Some([format |-> format, val |-> text, key |-> key, unks |-> unks])]

\* keyval.go:568-572: the first required key, in rule order, that is missing
RECURSIVE requiredCheck(_, _)
requiredCheck(m, rest) ==
    IF rest = <<>> THEN NoError
    ELSE IF /\ Head(rest).field = required
            /\ Head(rest).val = yes
            /\ Missing(m, Head(rest).key) # None
         THEN Errorf("missing required key %s", <<>>, Head(rest).key, {})
         ELSE requiredCheck(m, Tail(rest))

\* searchSlice checks that needle is in haystack: its place from 0, or -1
RECURSIVE searchSlice(_, _)
searchSlice(needle, haystack) ==
    IF haystack = <<>> THEN -1
    ELSE IF haystack[Len(haystack)] = needle /\ searchSlice(needle, Take(haystack, Len(haystack) - 1)) < 0
         THEN Len(haystack) - 1
         ELSE searchSlice(needle, Take(haystack, Len(haystack) - 1))

\* keyval.go:576-594: the checks of one entry k, v of the range over kv, given
\* the type, values and requires rules of k; v.AsInt and v.AsString dereference v
entryCheck(m, k, v, vType, legalVals, req) ==
    IF vType = int /\ v = None THEN Panic
    ELSE IF vType = int /\ v[1].AsInt = None
         THEN Errorf("value to key %s must be integer", <<>>, k, {})
    ELSE IF legalVals # <<>> /\ v = None THEN Panic
    ELSE IF legalVals # <<>> /\ searchSlice(v[1].AsString, Split(legalVals, <<",">>)) < 0
         THEN Errorf("illegal value %s for key %s", v[1].AsString, k, {})
    ELSE IF req # <<>> /\ Missing(m, req) # None
         THEN Errorf("missing required key %s", <<>>, req, {})
    ELSE NoError

\* the body of the range over kv for the key k
keyCheck(m, k, lgls) ==
    entryCheck(m, k, m[k], getLgl(k, type, lgls), getLgl(k, values, lgls),
               getLgl(k, requires, lgls))

\* keyval.go:575-595: the range over kv stops at the first entry, in the order of
\* the range, whose check fails: any failing entry may be this one
entryResults(checks) ==
    IF \A k \in DOMAIN checks : checks[k] = NoError THEN {NoError}
    ELSE {checks[k] : k \in {x \in DOMAIN checks : checks[x] # NoError}}

\* keyval.go:598-600: the unknown keys
unknownCheck(unks) ==
    IF unks.panic THEN Panic
    ELSE IF unks.novel # None THEN Errorf("unknown key(s): %v", <<>>, <<>>, unks.novel[1])
    ELSE NoError

\* keyval.go:567-602, after the rules are built: the first error in the order
\* required keys, entries, unknown keys
firstError(reqd, entries, unknown) ==
    IF reqd # NoError THEN {reqd}
    ELSE IF entries # {NoError} THEN entries
    ELSE {unknown}

\* CheckLegals, given the rules that BuildLegals returns
checkLegals(m, lgls) ==
    IF \E i \in 1..Len(lgls) : lgls[i].panic THEN {Panic}
    ELSE firstError(requiredCheck(m, lgls),
                    entryResults([k \in DOMAIN m |-> keyCheck(m, k, lgls)]),
                    unknownCheck(Unknown(m, Join(uniqueOf(lgls, lgls), <<",">>))))

\* CheckLegals builds the legal keys, types and "required" then checks kv against
\* this: the results it can return, one for each order of the range over kv
CheckLegals(m, legalKeys) == checkLegals(m, BuildLegals(legalKeys))

-----------------------------------------------------------------------------
(* The file reader: ReadKV2Slc, ReadKV.  A file is its content, a string;  *)
(* the file system is a function from paths to contents, and os.Open fails *)
(* for a path outside its domain.  Read errors other than io.EOF are not   *)
(* modelled.  A call returns [hang, keys, vals, err]: hang when the loop   *)
(* never ends, keys and vals nil (None) together with an error.            *)

\* keyval.go:67, 69: the package variables KVDelim and LineEOL
KVDelim == <<":">>

LineEOL == <<"\n">>

\* no file at all
NoFiles == <<>>

\* bufio.Reader.ReadString(LineEOL[0]) after pos bytes were read: the bytes up to
\* and with the next line end, or the rest of the file and io.EOF
ReadString(content, pos) ==
    IF Index(Drop(content, pos), LineEOL) < 0
    THEN [line |-> Drop(content, pos), eof |-> TRUE, pos |-> Len(content)]
    ELSE [line |-> Take(Drop(content, pos), Index(Drop(content, pos), LineEOL) + 1),
          eof |-> FALSE,
          pos |-> pos + Index(Drop(content, pos), LineEOL) + 1]

\* keyval.go:295-298: a line with a comment is cut at the comment
stripComment(line) ==
    IF Index(line, <<"/", "/">>) >= 0
    THEN TrimRight(Take(line, Index(line, <<"/", "/">>)), {" "})
    ELSE line

RECURSIVE readLines(_, _, _)
RECURSIVE afterRead(_, _, _)
RECURSIVE afterTrim(_, _, _, _)
RECURSIVE afterComment(_, _, _, _)

\* keyval.go:268-307: the loop that reads lines into nextLine while done is 0;
\* it ends at the end of the file (done is 1, or 2 when nothing was left to
\* read) or at a line that starts another entry (done stays 0)
readLines(content, pos, nextLine) == afterRead(content, ReadString(content, pos), nextLine)

\* keyval.go:269-282
afterRead(content, rd, nextLine) ==
    IF rd.eof
    THEN [line |-> rd.line, nextLine |-> nextLine,
          done |-> IF rd.line = <<>> THEN 2 ELSE 1, pos |-> rd.pos]
    ELSE afterTrim(content, rd.pos, TrimLeft(TrimRight(rd.line, {LineEOL[1]}), {" "}), nextLine)

\* keyval.go:284-298
afterTrim(content, pos, line, nextLine) ==
    IF line = <<>> \/ Len(line) < 2 THEN readLines(content, pos, nextLine)
    ELSE IF Take(line, 2) = <<"/", "/">> THEN readLines(content, pos, nextLine)
    ELSE afterComment(content, pos, stripComment(line), nextLine)

\* keyval.go:300-306
afterComment(content, pos, line, nextLine) ==
    IF Contains(nextLine, KVDelim) /\ Contains(line, KVDelim)
    THEN [line |-> line, nextLine |-> nextLine, done |-> 0, pos |-> pos]
    ELSE readLines(content, pos, nextLine \o <<" ">> \o line)

\* the results of ReadKV2Slc
Read(ks, vs) == [hang |-> FALSE, keys |-> Some(ks), vals |-> Some(vs), err |-> None]

ReadError(e) == [hang |-> FALSE, keys |-> None, vals |-> None, err |-> Some(e)]

Hang == [hang |-> TRUE, keys |-> None, vals |-> None, err |-> None]

\* os.Open: the error for a path that is not there
OpenError(specFile) == [format |-> "open %s: no such file or directory", text |-> <<>>, file |-> specFile]

\* keyval.go:312
BadKeyVal(nextLine, specFile) ==
    [format |-> "bad key val: %s in file %s", text |-> nextLine, file |-> specFile]

RECURSIVE ReadKV2Slc(_, _)
RECURSIVE readLoop(_, _, _, _, _, _, _)
RECURSIVE readEntry(_, _, _, _, _, _)
RECURSIVE readPair(_, _, _, _, _, _, _, _)
RECURSIVE readIncluded(_, _, _, _, _, _, _)

\* keyval.go:265-307: one turn of the outer loop up to the closed buffer;
\* nextLine = line, and lines are read only while done is 0
readLoop(fs, specFile, line, done, pos, ks, vs) ==
    IF done = 0
    THEN readEntry(fs, specFile, readLines(fs[specFile], pos, line), done, ks, vs)
    ELSE readEntry(fs, specFile, [line |-> line, nextLine |-> line, done |-> done, pos |-> pos],
                   done, ks, vs)

\* readEntry that trims the value at both ends
readEntry_TrimBoth(fs, specFile, st, doneBefore, ks, vs) ==
    IF ~Contains(st.nextLine, KVDelim) THEN ReadError(BadKeyVal(st.nextLine, specFile))
    ELSE readPair(fs, specFile, st, doneBefore,
                  RemoveChar(Take(st.nextLine, Index(st.nextLine, KVDelim)), " "),
                  TrimRight(TrimLeft(Drop(st.nextLine, Index(st.nextLine, KVDelim) + 1), {" "}),
                            {" "}),
                  ks, vs)

\* readEntry without the test of keyval.go:311: a buffer without KVDelim is a key
\* with an empty value
readEntry_KeyOnly(fs, specFile, st, doneBefore, ks, vs) ==
    IF ~Contains(st.nextLine, KVDelim)
    THEN readPair(fs, specFile, st, doneBefore, RemoveChar(st.nextLine, " "), <<>>, ks, vs)
    ELSE readPair(fs, specFile, st, doneBefore,
                  RemoveChar(Take(st.nextLine, Index(st.nextLine, KVDelim)), " "),
                  TrimLeft(Drop(st.nextLine, Index(st.nextLine, KVDelim) + 1), {" "}),
                  ks, vs)

\* keyval.go:310-316: the buffer is split at the first KVDelim; spaces are taken
\* out of the key and off the front of the value
readEntry(fs, specFile, st, doneBefore, ks, vs) ==
    IF ~Contains(st.nextLine, KVDelim) THEN ReadError(BadKeyVal(st.nextLine, specFile))
    ELSE readPair(fs, specFile, st, doneBefore,
                  RemoveChar(Take(st.nextLine, Index(st.nextLine, KVDelim)), " "),
                  TrimLeft(Drop(st.nextLine, Index(st.nextLine, KVDelim) + 1), {" "}),
                  ks, vs)

\* keyval.go:317-341: an include entry reads the file its value names; any
\* other entry is appended, and the loop ends when done is 2 and goes on, with
\* done moved from 1 to 2, otherwise
readPair(fs, specFile, st, doneBefore, key, value, ks, vs) ==
    IF key = <<"i", "n", "c", "l", "u", "d", "e">>
    THEN readIncluded(fs, specFile, st, doneBefore, ReadKV2Slc(fs, value), ks, vs)
    ELSE IF st.done = 2 THEN Read(Append(ks, key), Append(vs, value))
    ELSE readLoop(fs, specFile, st.line, IF st.done = 1 THEN 2 ELSE 0, st.pos,
                  Append(ks, key), Append(vs, value))

\* keyval.go:318-328: the entries of the included file are appended and the loop
\* continues, past the test of done and its step from 1 to 2.  When done was not
\* 0 before this turn, nothing was read in it and line is what it was: the next
\* turn is this turn again, and the loop never ends.
readIncluded(fs, specFile, st, doneBefore, inc, ks, vs) ==
    IF inc.hang THEN Hang
    ELSE IF inc.err # None THEN ReadError(inc.err[1])
    ELSE IF doneBefore # 0 THEN Hang
    ELSE readLoop(fs, specFile, st.line, st.done, st.pos, ks \o inc.keys[1], vs \o inc.vals[1])

\* ReadKV2Slc reads the specFile and returns the key/vals as two slices of strings
ReadKV2Slc(fs, specFile) ==
    IF specFile \notin DOMAIN fs THEN ReadError(OpenError(specFile))
    ELSE readLoop(fs, specFile, <<>>, 0, 0, <<>>, <<>>)

-----------------------------------------------------------------------------
(* Bounds and input sets                                                   *)

\* the longest input to ProcessKVs
MaxPairs == 3

\* the longest value string built character by character
MaxStrLen == 4

\* the most elements a value string joined from ElemPool has
MaxElems == 2

SeqsUpTo(S, n) == UNION {[1..k -> S] : k \in 0..n}

\* the keys handed to ProcessKVs
KeyPool == {<<"a">>, <<"a","1">>, <<"a","2">>, <<"b">>}

\* the values handed to ProcessKVs: an int, and a padded two-element list
ValPool == {<<"7">>, <<" ","h",",","i"," ">>}

\* the values ListDelim is set to: the default, and the one of TestKeyVal_GetBest
ListDelims == {<<",">>, <<"|">>}

\* value strings, character by character
ValChars == {"1", ".", ",", "-", " "}

\* value strings and list elements of every grammar, and near misses
ElemPool == {
    <<"4","2">>,
    <<"3",".","1","4">>,
    <<"h","i">>,
    <<>>,
    <<" ","7"," ">>,
    <<"1"," ","2">>,
    <<"1","e","3">>,
    <<"2","0","2","3","1","0","1","5">>,
    <<"9","/","2","/","2","0","2","2">>,
    <<"2","0","2","3","-","0","2","-","2","9">>,
    <<"s","e","p"," ","1",","," ","2","0","0","2">>,
    <<"J","a","n","u","a","r","y"," ","2"," ","2","0","0","6">>,
    <<"2","0","2","3","-","0","1","-","0","2","T","0","3",":","0","4",":","0","5","Z">> }

\* what joins the elements of a pooled value string
Seps == {<<",">>, <<"|">>}

PoolJoins == {Join(es, sep) : es \in SeqsUpTo(ElemPool, MaxElems) \ {<<>>}, sep \in Seps}

ValStrings == SeqsUpTo(ValChars, MaxStrLen) \cup PoolJoins

\* the roots GetMultiple is asked for
RootPool == KeyPool

\* the needles Missing is asked for
NeedlePool == {<<"a">>, <<"b">>, <<"a","1">>}

NeedleStrings ==
    {Join(ns, <<",">>) : ns \in SeqsUpTo(NeedlePool, 2)}
        \cup {<<"a", ",", " ", "b">>, <<"a", ",", ",", "b">>}

\* the universes Unknown is asked for
UniversePool ==
    { <<>>,
      <<"a">>,
      <<"a", "*">>,
      <<"*">>,
      <<"b", ",", "a", "1">>,
      <<"a", "1", "*", ",", " ", "b">>,
      <<"a", ",", ",", "b">> }

\* the longest input to ProcessKVs of which the Document is validated
MaxDocPairs == 2

\* the most lines a rule text has
MaxRuleLines == 3

\* the keys and values of the Documents that are validated
DocKeyPool == {<<"a">>, <<"b">>, <<"a","1">>}

DocValPool == {<<"7">>, <<"x">>}

\* the lines a rule text is made of: the rules of a, b, and of the literal a1, a2
LegalLines ==
    << <<"a", ":", "r", "e", "q", "u", "i", "r", "e", "d", "-", "y", "e", "s">>,
       <<"a", ":", "t", "y", "p", "e", "-", "i", "n", "t">>,
       <<"a", ":", "v", "a", "l", "u", "e", "s", "-", "7">>,
       <<"a", ":", "r", "e", "q", "u", "i", "r", "e", "s", "-", "b">>,
       <<"b", ":", "r", "e", "q", "u", "i", "r", "e", "d", "-", "y", "e", "s">>,
       <<"b", ":", "m", "u", "l", "t", "i", "p", "l", "e", "-", "y", "e", "s">>,
       <<"a", "1", ":", "r", "e", "q", "u", "i", "r", "e", "d", "-", "n", "o">>,
       <<"a", "2", ":", "r", "e", "q", "u", "i", "r", "e", "d", "-", "n", "o">>,
       <<"a", "1", ":", "t", "y", "p", "e", "-", "i", "n", "t">>,
       <<"a", "2", ":", "t", "y", "p", "e", "-", "i", "n", "t">>,
       <<"a", "2", ":", "r", "e", "q", "u", "i", "r", "e", "s", "-", "b">>,
       <<"b", ":", "t", "y", "p", "e", "-", "i", "n", "t">> >>

\* the rule text of the chosen lines, in the order of LegalLines, each with its
\* end of line
RECURSIVE LegalText(_, _)
LegalText(chosen, i) ==
    IF i > Len(LegalLines) THEN <<>>
    ELSE (IF i \in chosen THEN LegalLines[i] \o <<"\n">> ELSE <<>>) \o LegalText(chosen, i + 1)

LegalTexts ==
    {LegalText(chosen, 1) :
        chosen \in {c \in SUBSET (1..Len(LegalLines)) : Cardinality(c) <= MaxRuleLines}}

\* the most lines the file that is read has
MaxLines == 3

\* the paths: the file that is read, the file it includes
MainFile == <<"m">>

IncFile == <<"f">>

\* the lines of the file that is read, without their line end: an entry, a
\* continuation of two words, a blank line, a comment, an entry with a comment,
\* an include, a line of one character, an entry with a space in its key, a
\* second delimiter in its value and a space at its end
LinePool ==
    { <<"a", ":", " ", "1">>,
      <<"b", " ", "c", ":", " ", "5", ":", "6", " ">>,
      <<"x", " ", "y">>,
      <<>>,
      <<"/", "/", "c">>,
      <<"d", ":", "4", " ", "/", "/", "e">>,
      <<"i", "n", "c", "l", "u", "d", "e", ":", "f">>,
      <<"z">> }

\* the lines, each with its line end; the last one without when the file does not
\* end with a line end
RECURSIVE FileText(_, _)
FileText(lines, finalEOL) ==
    IF lines = <<>> THEN <<>>
    ELSE IF Len(lines) = 1 /\ ~finalEOL THEN Head(lines)
    ELSE Head(lines) \o LineEOL \o FileText(Tail(lines), finalEOL)

MainTexts ==
    {FileText(lines, finalEOL) : lines \in SeqsUpTo(LinePool, MaxLines), finalEOL \in BOOLEAN}

\* the included file: one entry, two entries, an entry and no line end, a line
\* without KVDelim
IncTexts ==
    { <<"c", ":", "3", "\n">>,
      <<"c", ":", "3", "\n", "e", ":", "5", "\n">>,
      <<"c", ":", "3">>,
      <<"z", "z", "\n">> }

\* the file systems: the file that is read, with or without the file it includes
FileSystems ==
    {MainFile :> main : main \in MainTexts}
        \cup {(MainFile :> main) @@ (IncFile :> inc) : main \in MainTexts, inc \in IncTexts}

-----------------------------------------------------------------------------
(* The state machine of ProcessKVs and of the queries on its result        *)

Init ==
    /\ ListDelim \in ListDelims
    /\ files = NoFiles
    /\ keys \in {None} \cup {Some(ks) : ks \in SeqsUpTo(KeyPool, MaxPairs)}
    /\ vals \in {None} \cup {Some(vs) : vs \in SeqsUpTo(ValPool, MaxPairs)}
    /\ IF keys = None \/ vals = None THEN TRUE ELSE Len(vals[1]) - Len(keys[1]) \in {0, 1}
    /\ indx = 0
    /\ kv = EmptyMap
    /\ pc = "ProcessKVs"
    /\ valStr = <<>>
    /\ val = None
    /\ query = [op |-> "none", arg |-> <<>>, ret |-> None, panic |-> FALSE]

\* keyval.go:347-353: nil slices or slices of different lengths are refused
ProcessKVsRefuse ==
    /\ pc = "ProcessKVs"
    /\ IF keys = None \/ vals = None THEN TRUE ELSE Len(keys[1]) # Len(vals[1])
    /\ pc' = "error"
    /\ UNCHANGED <<ListDelim, keys, vals, indx, kv, valStr, val, query, files>>

\* keyval.go:355: kv = make(KeyVal)
ProcessKVsBegin ==
    /\ pc = "ProcessKVs"
    /\ keys # None /\ vals # None
    /\ Len(keys[1]) = Len(vals[1])
    /\ kv' = EmptyMap
    /\ indx' = 0
    /\ pc' = "loop"
    /\ UNCHANGED <<ListDelim, keys, vals, valStr, val, query, files>>

\* keyval.go:356-384: one iteration of the loop
ProcessKVsStep ==
    /\ pc = "loop"
    /\ indx < Len(keys[1])
    /\ kv' = ProcessKV(kv, keys[1][indx + 1], vals[1][indx + 1])
    /\ indx' = indx + 1
    /\ UNCHANGED <<ListDelim, keys, vals, pc, valStr, val, query, files>>

\* keyval.go:386: return kv, nil
ProcessKVsReturn ==
    /\ pc = "loop"
    /\ indx = Len(keys[1])
    /\ pc' = "done"
    /\ UNCHANGED <<ListDelim, keys, vals, indx, kv, valStr, val, query, files>>

\* a caller asks kv.GetMultiple(root) of the returned map
CallGetMultiple ==
    /\ pc = "done"
    /\ \E root \in RootPool :
          query' = [op |-> "GetMultiple", arg |-> root, ret |-> GetMultiple(kv, root),
                    panic |-> FALSE]
    /\ pc' = "queried"
    /\ UNCHANGED <<ListDelim, keys, vals, indx, kv, valStr, val, files>>

\* a caller asks kv.Missing(needles) of the returned map
CallMissing ==
    /\ pc = "done"
    /\ \E needles \in NeedleStrings :
          query' = [op |-> "Missing", arg |-> needles, ret |-> Missing(kv, needles),
                    panic |-> FALSE]
    /\ pc' = "queried"
    /\ UNCHANGED <<ListDelim, keys, vals, indx, kv, valStr, val, files>>

\* a caller asks kv.Present(needles) of the returned map
CallPresent ==
    /\ pc = "done"
    /\ \E needles \in NeedleStrings :
          query' = [op |-> "Present", arg |-> needles, ret |-> Present(kv, needles),
                    panic |-> FALSE]
    /\ pc' = "queried"
    /\ UNCHANGED <<ListDelim, keys, vals, indx, kv, valStr, val, files>>

\* a caller asks kv.Unknown(universe) of the returned map
CallUnknown ==
    /\ pc = "done"
    /\ \E universe \in UniversePool :
          query' = [op |-> "Unknown", arg |-> universe,
                    ret |-> Unknown(kv, universe).novel,
                    panic |-> Unknown(kv, universe).panic]
    /\ pc' = "queried"
    /\ UNCHANGED <<ListDelim, keys, vals, indx, kv, valStr, val, files>>

Next ==
    \/ ProcessKVsRefuse
    \/ ProcessKVsBegin
    \/ ProcessKVsStep
    \/ ProcessKVsReturn
    \/ CallGetMultiple
    \/ CallMissing
    \/ CallPresent
    \/ CallUnknown

Spec == Init /\ [][Next]_vars

-----------------------------------------------------------------------------
(* Populate on its own: any value string, either ListDelim                 *)

InitPopulate ==
    /\ ListDelim \in ListDelims
    /\ files = NoFiles
    /\ valStr \in ValStrings
    /\ val = None
    /\ pc = "Populate"
    /\ keys = None
    /\ vals = None
    /\ indx = 0
    /\ kv = EmptyMap
    /\ query = [op |-> "none", arg |-> <<>>, ret |-> None, panic |-> FALSE]

\* keyval.go:417-458
CallPopulate ==
    /\ pc = "Populate"
    /\ val' = Some(Populate(valStr))
    /\ pc' = "populated"
    /\ UNCHANGED <<ListDelim, keys, vals, indx, kv, valStr, query, files>>

NextPopulate == CallPopulate

SpecPopulate == InitPopulate /\ [][NextPopulate]_vars

-----------------------------------------------------------------------------
(* CheckLegals on its own: a Document of ProcessKVs, any rule text         *)

\* keyval.go:355-386: the map that ProcessKVs returns for slices of one length
RECURSIVE processFrom(_, _, _, _)
processFrom(m, keysIn, valsIn, i) ==
    IF i > Len(keysIn) THEN m
    ELSE processFrom(ProcessKV(m, keysIn[i], valsIn[i]), keysIn, valsIn, i + 1)

ProcessKVs(keysIn, valsIn) == processFrom(EmptyMap, keysIn, valsIn, 1)

InitLegals ==
    /\ ListDelim = <<",">>
    /\ files = NoFiles
    /\ \E keysIn \in SeqsUpTo(DocKeyPool, MaxDocPairs) :
          \E valsIn \in [1..Len(keysIn) -> DocValPool] :
              /\ keys = Some(keysIn)
              /\ vals = Some(valsIn)
              /\ indx = Len(keysIn)
              /\ kv = ProcessKVs(keysIn, valsIn)
    /\ pc = "done"
    /\ valStr = <<>>
    /\ val = None
    /\ query = [op |-> "none", arg |-> <<>>, ret |-> None, panic |-> FALSE]

\* a caller validates the returned map: CheckLegals(kv, legalKeys)
CallCheckLegals ==
    /\ pc = "done"
    /\ \E legalKeys \in LegalTexts :
          \E result \in CheckLegals(kv, legalKeys) :
              query' = [op |-> "CheckLegals", arg |-> legalKeys, ret |-> result.err,
                        panic |-> result.panic]
    /\ pc' = "queried"
    /\ UNCHANGED <<ListDelim, keys, vals, indx, kv, valStr, val, files>>

NextLegals == CallCheckLegals

SpecLegals == InitLegals /\ [][NextLegals]_vars

-----------------------------------------------------------------------------
(* ReadKV2Slc and ReadKV on a file system                                  *)

\* the results of ReadKV
Document(m) == [hang |-> FALSE, keyval |-> Some(m), err |-> None]

NoDocument(e) == [hang |-> FALSE, keyval |-> None, err |-> e]

\* keyval.go:390-397: ReadKV reads a key/val set from specFile and returns KeyVal
readKV(rd) ==
    IF rd.hang THEN [hang |-> TRUE, keyval |-> None, err |-> None]
    ELSE IF rd.err # None THEN NoDocument(rd.err)
    ELSE Document(ProcessKVs(rd.keys[1], rd.vals[1]))

ReadKV(fs, specFile) == readKV(ReadKV2Slc(fs, specFile))

InitRead ==
    /\ ListDelim = <<",">>
    /\ files \in FileSystems
    /\ keys = None
    /\ vals = None
    /\ indx = 0
    /\ kv = EmptyMap
    /\ pc = "read"
    /\ valStr = <<>>
    /\ val = None
    /\ query = [op |-> "none", arg |-> <<>>, ret |-> None, panic |-> FALSE]

CallReadKV2Slc ==
    /\ pc = "read"
    /\ \E specFile \in {MainFile, IncFile} :
          query' = [op |-> "ReadKV2Slc", arg |-> specFile,
                    ret |-> ReadKV2Slc(files, specFile), panic |-> FALSE]
    /\ pc' = "queried"
    /\ UNCHANGED <<ListDelim, keys, vals, indx, kv, valStr, val, files>>

CallReadKV ==
    /\ pc = "read"
    /\ query' = [op |-> "ReadKV", arg |-> MainFile,
                 ret |-> ReadKV(files, MainFile), panic |-> FALSE]
    /\ pc' = "queried"
    /\ UNCHANGED <<ListDelim, keys, vals, indx, kv, valStr, val, files>>

NextRead ==
    \/ CallReadKV2Slc
    \/ CallReadKV

SpecRead == InitRead /\ [][NextRead]_vars

-----------------------------------------------------------------------------
(* Properties of ProcessKVs                                                *)

\* ProcessKVs has just returned its map
Returned == pc = "done"

\* the positions of the input at which the key is base, in input order
Occurrences(base) ==
    SelectSeq([i \in 1..Len(keys[1]) |-> i], LAMBDA i : keys[1][i] = base)

\* k is base followed by a decimal number
IsNumbered(k, base) ==
    /\ Len(k) > Len(base)
    /\ HasPrefix(k, base)
    /\ AllDigits(Drop(k, Len(base)))

\* the input holds no key that is base followed by a decimal number
NoNumberedInput(base) ==
    \A i \in 1..Len(keys[1]) : ~IsNumbered(keys[1][i], base)

\* base is renamed as a duplicate group: base1..basen hold the values of its
\* occurrences in input order, and neither base nor another baseN is a key
RenamedInOrder(base) ==
    LET occ == Occurrences(base)
    IN  /\ \A i \in 1..Len(occ) :
              /\ HasKey(kv, base \o Itoa(i))
              /\ kv[base \o Itoa(i)] = Some(Populate(vals[1][occ[i]]))
        /\ ~HasKey(kv, base)
        /\ \A k \in DOMAIN kv :
              IsNumbered(k, base) => \E i \in 1..Len(occ) : k = base \o Itoa(i)

\* base is not itself another key of the input followed by a decimal number
NotNumberedForm(base) ==
    \A i \in 1..Len(keys[1]) : ~IsNumbered(base, keys[1][i])

DistinctKeys ==
    \A i, j \in 1..Len(keys[1]) : i # j => keys[1][i] # keys[1][j]

\* C2: an input of pairwise distinct keys is stored as it is: the map has exactly
\* the input's keys, each with Populate of its own value, and as many entries as
\* the input has pairs.
C2_DistinctKeysKept ==
    (Returned /\ DistinctKeys) =>
        /\ DOMAIN kv = {keys[1][i] : i \in 1..Len(keys[1])}
        /\ \A i \in 1..Len(keys[1]) : kv[keys[1][i]] = Some(Populate(vals[1][i]))
        /\ Cardinality(DOMAIN kv) = Len(keys[1])

-----------------------------------------------------------------------------
(* Properties of Populate                                                  *)

\* Populate has returned: v is the Value it built
Populated == pc = "populated"

SliceTypes == {SliceStr, SliceFloat, SliceInt, SliceDate}

\* the projection of v that a DataType names is there; a slice has 2 elements or more
HasProjection(v, t) ==
    CASE t = String     -> TRUE
      [] t = Float      -> IsSome(v.AsFloat)
      [] t = IntType    -> IsSome(v.AsInt)
      [] t = Date       -> IsSome(v.AsDate)
      [] t = SliceStr   -> IsSome(v.AsSliceS) /\ Len(v.AsSliceS[1]) > 1
      [] t = SliceFloat -> IsSome(v.AsSliceF) /\ Len(v.AsSliceF[1]) > 1
      [] t = SliceInt   -> IsSome(v.AsSliceI) /\ Len(v.AsSliceI[1]) > 1
      [] t = SliceDate  -> IsSome(v.AsSliceD) /\ Len(v.AsSliceD[1]) > 1
      [] OTHER          -> FALSE

\* C3: the BestType of a Value that Populate returns is never a type whose
\* projection is absent, and a slice BestType has a projection of 2 elements or more.
C3_BestTypeHasProjection ==
    Populated => HasProjection(val[1], val[1].BestType)

\* C3's case: a slice BestType over a unary one
C3_Witness ==
    /\ Populated
    /\ val[1].BestType = SliceFloat
    /\ IsSome(val[1].AsFloat) = FALSE
    /\ Len(val[1].AsSliceF[1]) = 2

\* the whitespace-insensitive parses of Populate and toSlices
AsIntOf(str) == ParseInt(RemoveChar(str, " "))

AsFloatOf(str) == ParseFloat(RemoveChar(str, " "))

\* the unary types a value string parses as
UnaryTypes(str) ==
    {String} \cup (IF IsSome(AsFloatOf(str)) THEN {Float} ELSE {})
             \cup (IF IsSome(AsIntOf(str)) THEN {IntType} ELSE {})
             \cup (IF IsSome(toDate(str)) THEN {Date} ELSE {})

\* the rank of a DataType: Date > Int > Float > String, and the same among slices
Rank(t) ==
    CASE t \in {String, SliceStr}     -> 0
      [] t \in {Float, SliceFloat}    -> 1
      [] t \in {IntType, SliceInt}    -> 2
      [] t \in {Date, SliceDate}      -> 3

\* the elements of the value string, as strings.Split cuts it
Elements(str) == Split(str, ListDelim)

\* C4: a value string of one list element gets the highest-ranked unary type it
\* parses as, Date > Int > Float > String.
C4_UnaryPrecedence ==
    (Populated /\ Len(Elements(valStr)) = 1) =>
        /\ val[1].BestType \in UnaryTypes(valStr)
        /\ \A t \in UnaryTypes(valStr) : Rank(t) <= Rank(val[1].BestType)

\* C4's case: an 8-digit string is an int, a float and a date, and gets Date
C4_Witness ==
    /\ Populated
    /\ valStr = <<"2","0","2","3","1","0","1","5">>
    /\ UnaryTypes(valStr) = {String, Float, IntType, Date}
    /\ val[1].BestType = Date

\* every element of the list parses as an int (resp. as a date)
AllInts(elems) == \A i \in 1..Len(elems) : IsSome(AsIntOf(elems[i]))

AllDates(elems) == \A i \in 1..Len(elems) : IsSome(toDate(elems[i]))

\* C5, as claimed: a value string that parses as an integer gets Int, a list of
\* two or more elements that all parse as integers gets SliceInt, and nothing else.
C5_IntIsInt_Claimed ==
    Populated =>
        /\ IsSome(AsIntOf(valStr)) => val[1].BestType = IntType
        /\ (Len(Elements(valStr)) > 1 /\ AllInts(Elements(valStr)))
              => val[1].BestType = SliceInt

\* C5, amended: a value string that parses as an integer gets Int unless it also
\* parses as a date, and then Date; a list of two or more elements that all parse
\* as integers gets SliceInt unless they all parse as dates too, and then SliceDate.
C5_IntIsInt ==
    Populated =>
        /\ IsSome(AsIntOf(valStr))
              => val[1].BestType = (IF IsSome(toDate(valStr)) THEN Date ELSE IntType)
        /\ (Len(Elements(valStr)) > 1 /\ AllInts(Elements(valStr)))
              => val[1].BestType =
                    (IF AllDates(Elements(valStr)) THEN SliceDate ELSE SliceInt)

\* C5's case: a list of integers of which one only is a date too
C5_Witness ==
    /\ Populated
    /\ valStr = <<"2","0","2","3","1","0","1","5", ",", "4","2">>
    /\ ListDelim = <<",">>
    /\ val[1].BestType = SliceInt

\* the highest slice type whose projection is populated
BestSlice(v) ==
    IF IsSome(v.AsSliceD) THEN SliceDate
    ELSE IF IsSome(v.AsSliceI) THEN SliceInt
    ELSE IF IsSome(v.AsSliceF) THEN SliceFloat
    ELSE SliceStr

\* C6: a value of two or more elements gets the highest slice type whose
\* projection is populated, SliceDate > SliceInt > SliceFloat > SliceStr, whatever
\* the whole string parses as; a value of one element gets no slice type.
C6_ListPrecedence ==
    Populated =>
        IF Len(Elements(valStr)) > 1
        THEN val[1].BestType = BestSlice(val[1])
        ELSE val[1].BestType \notin SliceTypes

\* C6's case: the whole string is a date, its two elements are strings
C6_Witness ==
    /\ Populated
    /\ ListDelim = <<",">>
    /\ valStr = <<"s","e","p"," ","1",","," ","2","0","0","2">>
    /\ IsSome(val[1].AsDate)
    /\ val[1].BestType = SliceStr

\* the typed projection slc of the elements is all or nothing: it is there exactly
\* when every element parses, and then holds the parse of each element in order
AllOrNothing(slc, elems, parse(_)) ==
    /\ IsSome(slc) <=> \A i \in 1..Len(elems) : IsSome(parse(elems[i]))
    /\ IsSome(slc) =>
          /\ Len(slc[1]) = Len(elems)
          /\ \A i \in 1..Len(elems) : slc[1][i] = parse(elems[i])[1]

\* C7: AsSliceI (AsSliceF, AsSliceD) is non-nil exactly when every element of
\* AsSliceS parses as an int (float, date), and then it is as long as AsSliceS and
\* its i-th entry is the parse of the i-th element.
C7_TypedSlicesAllOrNothing ==
    Populated =>
        /\ IsSome(val[1].AsSliceS)
        /\ AllOrNothing(val[1].AsSliceI, val[1].AsSliceS[1], AsIntOf)
        /\ AllOrNothing(val[1].AsSliceF, val[1].AsSliceS[1], AsFloatOf)
        /\ AllOrNothing(val[1].AsSliceD, val[1].AsSliceS[1], toDate)

\* C7's case: one element of two is no int, and AsSliceI is nil, not [7]
C7_Witness ==
    /\ Populated
    /\ val[1].AsSliceS = Some(<< <<"1","e","3">>, <<"7">> >>)
    /\ val[1].AsSliceI = None
    /\ IsSome(val[1].AsSliceF)

-----------------------------------------------------------------------------
(* Properties of the Document and of its queries                           *)

\* the input pairs an entry under key k can come from: its key is k, or k is
\* its key followed by a decimal number
Origins(k) ==
    {i \in 1..indx : k = keys[1][i] \/ IsNumbered(k, keys[1][i])}

\* s with its leading and trailing spaces trimmed
TrimSpaces(s) == TrimRight(TrimLeft(s, {" "}), {" "})

\* C8, as claimed: the AsString of every Value of the Document is the value
\* string of its input pair with leading and trailing spaces trimmed, and the
\* pair stored last is in the Document with such an AsString.
C8_AsStringRoundTrip_Claimed ==
    pc \in {"loop", "done"} =>
        /\ \A k \in DOMAIN kv :
              IsSome(kv[k]) =>
                  \E i \in Origins(k) : kv[k][1].AsString = TrimSpaces(vals[1][i])
        /\ indx > 0 =>
              \E k \in DOMAIN kv :
                  /\ indx \in Origins(k)
                  /\ IsSome(kv[k])
                  /\ kv[k][1].AsString = TrimSpaces(vals[1][indx])

\* C8, amended: the AsString of every Value of the Document is the value string
\* of its input pair exactly as ProcessKVs was given it, nothing trimmed,
\* whichever other projections are populated, and the pair stored last is in
\* the Document with such an AsString.
C8_AsStringRoundTrip ==
    pc \in {"loop", "done"} =>
        /\ \A k \in DOMAIN kv :
              IsSome(kv[k]) =>
                  \E i \in Origins(k) : kv[k][1].AsString = vals[1][i]
        /\ indx > 0 =>
              \E k \in DOMAIN kv :
                  /\ indx \in Origins(k)
                  /\ IsSome(kv[k])
                  /\ kv[k][1].AsString = vals[1][indx]

\* C8's case: a padded value string is a list, and is kept with its padding
C8_Witness ==
    /\ Returned
    /\ HasKey(kv, <<"b">>)
    /\ kv[<<"b">>][1].AsString = <<" ","h",",","i"," ">>
    /\ kv[<<"b">>][1].BestType = SliceStr

\* a query has returned
Queried(op) == pc = "queried" /\ query.op = op

\* the largest n for which root1..rootn are all keys of the Document
Run(root) ==
    CHOOSE n \in 0..Cardinality(DOMAIN kv) :
        /\ \A i \in 1..n : HasKey(kv, root \o Itoa(i))
        /\ ~HasKey(kv, root \o Itoa(n + 1))

\* C9: GetMultiple(root) returns what root1..rootn hold, in this order, n the
\* largest number with root1..rootn all keys of the Document; when root1 is no
\* key it returns what root holds when root is a key, and nil otherwise.
C9_GetMultiple ==
    Queried("GetMultiple") =>
        query.ret =
            IF Run(query.arg) >= 1
            THEN Some([i \in 1..Run(query.arg) |-> kv[query.arg \o Itoa(i)]])
            ELSE IF HasKey(kv, query.arg) THEN Some(<<kv[query.arg]>>)
            ELSE None

\* the needles of a needle string: white space removed, then cut at the commas
Needles(str) == Split(CleanString(str, <<" ", "\n", "\t">>), <<",">>)

\* neither Get nor GetMultiple succeeds for the needle
NotFound(needle) == ~IsSome(Get(kv, needle)) /\ ~IsSome(GetMultiple(kv, needle))

\* C10: Missing(needles) returns, in needle order, the needles for which neither
\* Get nor GetMultiple succeeds, and nil when there is none; a Document made of
\* one a and two b gives nil for "a,b".
C10_Missing ==
    Queried("Missing") =>
        /\ query.ret =
              IF SelectSeq(Needles(query.arg), NotFound) = <<>> \/ query.arg = <<>>
              THEN None
              ELSE Some(SelectSeq(Needles(query.arg), NotFound))
        /\ (/\ Len(keys[1]) = 3
            /\ Len(Occurrences(<<"a">>)) = 1
            /\ Len(Occurrences(<<"b">>)) = 2
            /\ query.arg = <<"a", ",", "b">>) => query.ret = None

\* C10's case: the group b1, b2 without a bare b counts as b
C10_Witness ==
    /\ Queried("Missing")
    /\ query.arg = <<"a", ",", "b">>
    /\ DOMAIN kv = {<<"a">>, <<"b","1">>, <<"b","2">>}
    /\ query.ret = None

\* Get succeeds for the needle: the needle is itself a key with a Value
Found(needle) == IsSome(Get(kv, needle))

\* the needle is there as a duplicate group only: needle1 is, the bare needle is not
GroupOnly(needle) == ~Found(needle) /\ IsSome(GetMultiple(kv, needle))

\* C11: Present(needles) returns, in needle order, the needles (cut at the commas,
\* as for Missing) for which Get succeeds, and nil when there is none; a needle
\* that is there as a duplicate group only is returned neither by Present nor by
\* Missing.
C11_Present ==
    Queried("Present") =>
        /\ query.ret =
              IF SelectSeq(Needles(query.arg), Found) = <<>> \/ query.arg = <<>>
              THEN None
              ELSE Some(SelectSeq(Needles(query.arg), Found))
        /\ GroupOnly(query.arg) => (query.ret = None /\ Missing(kv, query.arg) = None)

\* the entries of a universe string: none when it is empty, else what is between
\* its commas, white space apart
Entries(universe) ==
    IF universe = <<>> THEN <<>>
    ELSE Split(CleanString(universe, <<" ", "\n", "\t">>), <<",">>)

\* the universe string is empty, or a comma-separated list of non-empty entries
WellFormedUniverse(universe) ==
    \A i \in 1..Len(Entries(universe)) : Entries(universe)[i] # <<>>

\* the key equals the entry, or the entry ends in * and the key starts with its stem
Covers(entry, key) ==
    \/ entry = key
    \/ /\ entry # <<>>
       /\ entry[Len(entry)] = "*"
       /\ HasPrefix(key, Take(entry, Len(entry) - 1))

\* the keys of the Document that no entry of the universe covers
Uncovered(universe) ==
    {k \in DOMAIN kv :
        \A i \in 1..Len(Entries(universe)) : ~Covers(Entries(universe)[i], k)}

\* C12: for a universe that is empty or a comma-separated list of non-empty
\* entries, Unknown returns the keys of the Document that no entry covers, and nil
\* exactly when every key is covered.
C12_Unknown ==
    (Queried("Unknown") /\ WellFormedUniverse(query.arg)) =>
        /\ ~query.panic
        /\ query.ret = IF Uncovered(query.arg) = {} THEN None
                       ELSE Some(Uncovered(query.arg))

-----------------------------------------------------------------------------
(* Properties of CheckLegals                                               *)

\* CheckLegals has returned or panicked
Checked == Queried("CheckLegals")

\* the rules lgls hold the line key:field-value
HasRule(lgls, key, field, value) ==
    \E i \in 1..Len(lgls) :
        lgls[i].key = key /\ lgls[i].field = field /\ lgls[i].val = value

\* the values of the rules key:field-...
RuleValues(lgls, key, field) ==
    {lgls[i].val : i \in {j \in 1..Len(lgls) : lgls[j].key = key /\ lgls[j].field = field}}

\* the keys that rules are about
RuleKeys(lgls) == {lgls[i].key : i \in 1..Len(lgls)}

\* a key is missing from the Document: it is there neither bare nor as a group
IsMissing(key) == Missing(kv, key) # None

\* the required keys that are missing
MissingRequired(lgls) ==
    {k \in RuleKeys(lgls) : HasRule(lgls, k, required, yes) /\ IsMissing(k)}

\* the entry of k has no int projection though k:type-int is a rule
TypeViolation(lgls, k) ==
    /\ HasRule(lgls, k, type, int)
    /\ (kv[k] = None \/ kv[k][1].AsInt = None)

\* the entry of k has a value string that the rule k:values-... does not list
ValueViolation(lgls, k) ==
    \E vs \in RuleValues(lgls, k, values) :
        kv[k] = None \/ \A i \in 1..Len(Split(vs, <<",">>)) : Split(vs, <<",">>)[i] # kv[k][1].AsString

\* a key that a rule k:requires-... names is missing
RequiresViolation(lgls, k) ==
    \E r \in RuleValues(lgls, k, requires) : IsMissing(r)

\* the keys of the Document with a violation of their own rules
Violating(lgls) ==
    {k \in DOMAIN kv :
        TypeViolation(lgls, k) \/ ValueViolation(lgls, k) \/ RequiresViolation(lgls, k)}

\* the keys of the Document that are not legal: no key with a required rule is
\* equal to them, or is a prefix of them when it admits duplicates
UnknownKeys(lgls) ==
    {k \in DOMAIN kv :
        \A r \in RuleKeys(lgls) :
            RuleValues(lgls, r, required) = {} \/
                (k # r /\ ~(HasRule(lgls, r, multiple, yes) /\ HasPrefix(k, r)))}

\* the error is of this format
IsError(format) == ~query.panic /\ query.ret # None /\ query.ret[1].format = format

\* CheckLegals returned nil
IsNil == ~query.panic /\ query.ret = None

\* the error is one of an entry
IsEntryError(lgls) ==
    \/ IsError("value to key %s must be integer") /\ TypeViolation(lgls, query.ret[1].key)
    \/ IsError("illegal value %s for key %s") /\ ValueViolation(lgls, query.ret[1].key)
    \/ /\ IsError("missing required key %s")
       /\ \E k \in DOMAIN kv : query.ret[1].key \in RuleValues(lgls, k, requires)

\* the order of C13, given the three kinds of failure
FirstFailure(lgls, missing, violating, unknown) ==
    /\ ~query.panic
    /\ missing # {} =>
          IsError("missing required key %s") /\ query.ret[1].key \in missing
    /\ (missing = {} /\ violating # {}) => IsEntryError(lgls)
    /\ (missing = {} /\ violating = {} /\ unknown # {}) =>
          IsError("unknown key(s): %v") /\ query.ret[1].unks = unknown
    /\ IsError("unknown key(s): %v") => (missing = {} /\ violating = {})
    /\ IsNil => (missing = {} /\ violating = {} /\ unknown = {})

\* the order of C13 for the rules lgls
InOrder(lgls) ==
    FirstFailure(lgls, MissingRequired(lgls), Violating(lgls), UnknownKeys(lgls))

\* C13: CheckLegals reports the first failure in the order missing required key,
\* violations of the entries, unknown keys: a missing required key is reported
\* whatever else is wrong, a violation of an entry when no required key is
\* missing, the unknown keys when nothing else is wrong, and nil is returned
\* only when nothing is wrong.
C13_CheckLegalsOrder ==
    Checked => InOrder(BuildLegals(query.arg))

\* the entry of k is a Value without an int projection
NoIntProjection(k) == kv[k] # None /\ kv[k][1].AsInt = None

\* the type violation of k is all that is wrong
OnlyTypeViolation(lgls, k) ==
    /\ Violating(lgls) = {k}
    /\ ~ValueViolation(lgls, k)
    /\ ~RequiresViolation(lgls, k)
    /\ UnknownKeys(lgls) = {}

\* the type check of C14 for the rules lgls
TypeChecked(lgls) ==
    \A k \in DOMAIN kv :
        (HasRule(lgls, k, type, int) /\ MissingRequired(lgls) = {} /\ NoIntProjection(k)) =>
            /\ ~query.panic /\ query.ret # None
            /\ OnlyTypeViolation(lgls, k) =>
                  IsError("value to key %s must be integer") /\ query.ret[1].key = k

\* C14: when the Document has the key k, the rules have k:type-int, no required
\* key is missing and the value of k has no int projection, CheckLegals returns an
\* error, and the error "value to key k must be integer" when nothing else is wrong.
C14_TypeCheck ==
    Checked => TypeChecked(BuildLegals(query.arg))

\* the keys that a requires rule of a key of the Document names and that are
\* missing from the Document
RequiredByPresent(lgls) ==
    {r \in UNION {RuleValues(lgls, k, requires) : k \in DOMAIN kv} : IsMissing(r)}

\* k breaks its requires rule and nothing else is wrong
OnlyRequiresViolation(lgls, k) ==
    /\ MissingRequired(lgls) = {}
    /\ Violating(lgls) = {k}
    /\ ~TypeViolation(lgls, k)
    /\ ~ValueViolation(lgls, k)
    /\ UnknownKeys(lgls) = {}

\* a requires rule of a key of the Document whose target is missing gives an
\* error, the missing-key error of the target when nothing else is wrong
RequiresChecked(lgls) ==
    \A k \in DOMAIN kv :
        RequiresViolation(lgls, k) =>
            /\ ~query.panic
            /\ query.ret # None
            /\ OnlyRequiresViolation(lgls, k) =>
                    /\ IsError("missing required key %s")
                    /\ query.ret[1].key \in RuleValues(lgls, k, requires)

\* the requires rules of keys that are not in the Document impose nothing: a
\* missing-key error names a key that is required, or that a key of the
\* Document requires
RequiresOfAbsentIdle(lgls) ==
    IsError("missing required key %s") =>
        query.ret[1].key \in MissingRequired(lgls) \cup RequiredByPresent(lgls)

\* C15: when the Document has a key k with a rule k:requires-k2 and k2 is missing
\* from the Document, CheckLegals returns a non-nil error, which is "missing
\* required key k2" when this is the only violation; when k is not in the
\* Document its requires rule imposes nothing.
C15_DependencyCheck ==
    Checked => RequiresChecked(BuildLegals(query.arg)) /\ RequiresOfAbsentIdle(BuildLegals(query.arg))

\* the keys root1, root2, ... of the Document
GroupKeys(root) ==
    {k \in DOMAIN kv : \E i \in 1..Cardinality(DOMAIN kv) : k = root \o Itoa(i)}

\* a required key that admits duplicates and is there as a group only is neither
\* reported missing nor are the keys of its group reported unknown
GroupAccepted(lgls) ==
    \A root \in RuleKeys(lgls) :
        (/\ HasRule(lgls, root, required, yes)
         /\ HasRule(lgls, root, multiple, yes)
         /\ GroupOnly(root)) =>
            /\ ~(IsError("missing required key %s") /\ query.ret[1].key = root)
            /\ IsError("unknown key(s): %v") => query.ret[1].unks \cap GroupKeys(root) = {}

\* a key with a required rule that does not admit duplicates and occurs more than
\* once in the input gives an error
DuplicateRefused(lgls) ==
    \A key \in RuleKeys(lgls) :
        (/\ RuleValues(lgls, key, required) # {}
         /\ ~HasRule(lgls, key, multiple, yes)
         /\ Len(Occurrences(key)) > 1) =>
            ~query.panic /\ query.ret # None

\* C16: a key with the rules required-yes and multiple-yes that is in the Document
\* as a duplicate group only satisfies the required-key check and no key of the
\* group is reported unknown; a key with a required rule and no multiple-yes rule
\* that occurs more than once in the input to ProcessKVs makes CheckLegals return
\* an error.
C16_Multiplicity ==
    Checked => GroupAccepted(BuildLegals(query.arg)) /\ DuplicateRefused(BuildLegals(query.arg))

-----------------------------------------------------------------------------
(* Properties of ReadKV2Slc and ReadKV                                     *)

\* the lines of a file, without their line ends and leading spaces
TrimmedLines(lines) == [i \in 1..Len(lines) |-> TrimLeft(lines[i], {" "})]

FileLines(content) == TrimmedLines(Split(content, LineEOL))

\* a line that is a comment as a whole
IsCommentLine(line) == HasPrefix(line, <<"/", "/">>)

\* a line without the comment at its end and the spaces before it
CutAtMarker(line) ==
    IF Contains(line, <<"/", "/">>)
    THEN TrimRight(Take(line, Index(line, <<"/", "/">>)), {" "})
    ELSE line

\* a line under 2 characters counts as blank
IsBlankLine(line) == Len(line) < 2

\* the lines that are neither blank nor comments, without their comments
CutLines(lines) == [i \in 1..Len(lines) |-> CutAtMarker(lines[i])]

ContentLines(content) ==
    CutLines(SelectSeq(FileLines(content), LAMBDA l : ~IsBlankLine(l) /\ ~IsCommentLine(l)))

\* the logical entries of lines: a line joins the buffer after a single space
\* unless both hold the delimiter, when the buffer is closed and the line starts
\* the next entry; the end of the lines closes the last buffer
RECURSIVE Grouped(_, _)
Grouped(lines, buffer) ==
    IF lines = <<>> THEN (IF buffer = <<>> THEN <<>> ELSE <<buffer>>)
    ELSE IF buffer = <<>> THEN Grouped(Tail(lines), Head(lines))
    ELSE IF Contains(buffer, KVDelim) /\ Contains(Head(lines), KVDelim)
         THEN <<buffer>> \o Grouped(Tail(lines), Head(lines))
         ELSE Grouped(Tail(lines), buffer \o <<" ">> \o Head(lines))

LogicalEntries(content) == Grouped(ContentLines(content), <<>>)

\* the key and the value of a logical entry
KeyOf(entry) == RemoveChar(Take(entry, Index(entry, KVDelim)), " ")

ValueOf(entry) == TrimLeft(Drop(entry, Index(entry, KVDelim) + 1), {" "})

IsInclude(entry) ==
    Contains(entry, KVDelim) /\ KeyOf(entry) = <<"i", "n", "c", "l", "u", "d", "e">>

\* the included file parses
Parses(fs, path) == ~ReadKV2Slc(fs, path).hang /\ ReadKV2Slc(fs, path).err = None

\* every entry holds the delimiter and every file that is included parses
Spliceable(fs, entries) ==
    \A i \in 1..Len(entries) :
        /\ Contains(entries[i], KVDelim)
        /\ IsInclude(entries[i]) => Parses(fs, ValueOf(entries[i]))

\* the keys and the values of the entries in their order, those of an included file
\* in the place of its include entry
RECURSIVE SplicedKeys(_, _)
SplicedKeys(fs, entries) ==
    IF entries = <<>> THEN <<>>
    ELSE (IF IsInclude(Head(entries))
          THEN ReadKV2Slc(fs, ValueOf(Head(entries))).keys[1]
          ELSE <<KeyOf(Head(entries))>>) \o SplicedKeys(fs, Tail(entries))

RECURSIVE SplicedVals(_, _)
SplicedVals(fs, entries) ==
    IF entries = <<>> THEN <<>>
    ELSE (IF IsInclude(Head(entries))
          THEN ReadKV2Slc(fs, ValueOf(Head(entries))).vals[1]
          ELSE <<ValueOf(Head(entries))>>) \o SplicedVals(fs, Tail(entries))

\* ReadKV2Slc was called on a file that is there
ReadFile == Queried("ReadKV2Slc") /\ query.arg \in DOMAIN files

\* ReadKV2Slc returned keys and values
ReadOK == ~query.ret.hang /\ query.ret.err = None

IncludeSpliced(entries) ==
    ((\E i \in 1..Len(entries) : IsInclude(entries[i])) /\ Spliceable(files, entries)) =>
        /\ ReadOK
        /\ query.ret.keys = Some(SplicedKeys(files, entries))
        /\ query.ret.vals = Some(SplicedVals(files, entries))

IncludeNeverKey ==
    ReadOK => \A i \in 1..Len(query.ret.keys[1]) :
                  query.ret.keys[1][i] # <<"i", "n", "c", "l", "u", "d", "e">>

\* C17: for an include entry at any place of a file, first, middle or last,
\* ReadKV2Slc succeeds whenever the included file parses, and returns the entries
\* before the include, then the entries of the included file in their order, then
\* the entries after it; include is never a key of the output.
C17_IncludeSplicing ==
    ReadFile => IncludeSpliced(LogicalEntries(files[query.arg])) /\ IncludeNeverKey

\* the file has entries, each with the delimiter and none an include
PlainEntries(entries) ==
    /\ entries # <<>>
    /\ \A i \in 1..Len(entries) : Contains(entries[i], KVDelim) /\ ~IsInclude(entries[i])

\* the output is the logical entries, one key and one value for each
LinesGrouped(entries) ==
    PlainEntries(entries) =>
        /\ ReadOK
        /\ query.ret.keys = Some([i \in 1..Len(entries) |-> KeyOf(entries[i])])
        /\ query.ret.vals = Some([i \in 1..Len(entries) |-> ValueOf(entries[i])])

\* C18: every line that is neither blank nor a comment joins the buffer after a
\* single space, unless the buffer and the line both hold the delimiter, when the
\* buffer is closed as one entry and the line starts the next: an entry line and
\* the delimiter-free lines after it are one entry, whose value is these lines
\* joined by single spaces, and blank lines and comments in between do not end it.
C18_MultiLineValues ==
    ReadFile => LinesGrouped(LogicalEntries(files[query.arg]))

\* the file without its comments: every line ends where its comment marker is
Uncommented(content) == Join(CutLines(Split(content, LineEOL)), LineEOL)

\* a string of the output holds the comment marker
Marked(strs) == \E i \in 1..Len(strs) : Contains(strs[i], <<"/", "/">>)

\* no key and no value of the output holds a comment marker
NoMarkerInOutput == ReadOK => ~Marked(query.ret.keys[1]) /\ ~Marked(query.ret.vals[1])

\* the comments contribute nothing: the keys and values are those of the files
\* without their comments
CommentsIdle(plain) ==
    /\ query.ret.hang = plain.hang
    /\ query.ret.keys = plain.keys
    /\ query.ret.vals = plain.vals

\* C19: a line that starts with // contributes nothing to any entry, a line that
\* holds // elsewhere is cut at the marker and the spaces before it are trimmed:
\* nothing at or after a comment marker is in a key or value that ReadKV2Slc
\* returns.
C19_Comments ==
    ReadFile =>
        /\ NoMarkerInOutput
        /\ CommentsIdle(ReadKV2Slc([path \in DOMAIN files |-> Uncommented(files[path])], query.arg))

\* ReadKV2Slc or ReadKV was called on a file that is there
ReadAny == pc = "queried" /\ query.op \in {"ReadKV2Slc", "ReadKV"} /\ query.arg \in DOMAIN files

\* a logical entry of the file is without the delimiter
DelimiterFree(entries) == {i \in 1..Len(entries) : ~Contains(entries[i], KVDelim)}

Malformed(content) == DelimiterFree(LogicalEntries(content)) # {}

\* the files that the include entries of the file name
IncludedBy(entries) == {ValueOf(entries[i]) : i \in {j \in 1..Len(entries) : IsInclude(entries[j])}}

Included(content) == IncludedBy(LogicalEntries(content))

\* the file, and the files it includes, that have an entry without the delimiter
MalformedFiles(path) ==
    {f \in ({path} \cup Included(files[path])) \cap DOMAIN files : Malformed(files[f])}

\* the call returned an error
Failed == ~query.ret.hang /\ query.ret.err # None

\* the call failed with the error of an entry without the delimiter
IsBadKeyVal ==
    /\ Failed
    /\ query.ret.err[1].format = "bad key val: %s in file %s"

\* the texts that lines i..j of a file make up when joined by single spaces
Joined(lines) ==
    {Join(SubSeq(lines, i, j), <<" ">>) : i \in 1..Len(lines), j \in 1..Len(lines)}

\* the error names a file that is there and a text without the delimiter that
\* is in this file: nothing yet, lines of the file joined by single spaces, or a
\* line as it stands in the file
Range(seq) == {seq[i] : i \in 1..Len(seq)}

NamesEntry ==
    /\ query.ret.err[1].file \in DOMAIN files
    /\ ~Contains(query.ret.err[1].text, KVDelim)
    /\ TrimLeft(query.ret.err[1].text, {" "}) \in
          {<<>>} \cup Joined(ContentLines(files[query.ret.err[1].file]))
                 \cup Range(FileLines(files[query.ret.err[1].file]))

\* every file ends with a line end
AllEndWithEOL ==
    \A path \in DOMAIN files : files[path] # <<>> /\ files[path][Len(files[path])] = LineEOL[1]

\* the error names an entry without the delimiter and its file
EntryNamed(entries) ==
    \E i \in DelimiterFree(entries) : TrimLeft(query.ret.err[1].text, {" "}) = entries[i]

NamesMalformed(bad) ==
    \E f \in bad : query.ret.err[1].file = f /\ EntryNamed(LogicalEntries(files[f]))

\* what the call does when these are the files with an entry without the delimiter
MalformedFails(bad) ==
    bad # {} =>
        /\ Failed
        /\ Included(files[query.arg]) \subseteq DOMAIN files => IsBadKeyVal
        /\ (IsBadKeyVal /\ AllEndWithEOL) => NamesMalformed(bad)

\* nothing is returned beside the error
NothingReturned ==
    IF query.op = "ReadKV2Slc"
    THEN query.ret.keys = None /\ query.ret.vals = None
    ELSE query.ret.keyval = None

Terminated(content) ==
    (IF content # <<>> /\ content[Len(content)] = LineEOL[1] THEN content ELSE content \o LineEOL)
        \o LineEOL

\* the file system with this file terminated
WithTerminated(path) == [f \in DOMAIN files |-> IF f = path THEN Terminated(files[f]) ELSE files[f]]

\* the call returned what it returns for the terminated file
SameOutput(terminated) ==
    /\ query.ret.hang = terminated.hang
    /\ query.ret.keys = terminated.keys
    /\ query.ret.vals = terminated.vals

\* C21: whether the last line of a file ends with the line end or not, ReadKV2Slc
\* emits the last logical entry exactly once, with the key and value it has when
\* the file ends with a line end and a blank line, and every earlier entry exactly
\* once and in file order.
C21_EndOfInput ==
    ReadFile => SameOutput(ReadKV2Slc(WithTerminated(query.arg), query.arg))

\* no file that is there includes a file that includes: the includes are no cycle
NoIncludeCycle ==
    \A path \in DOMAIN files :
        \A inc \in Included(files[path]) \cap DOMAIN files : Included(files[inc]) = {}

\* C22: ReadKV2Slc terminates, with the entries or with an error, for all files
\* whose includes are not a cycle, wherever the includes stand in the file and
\* whether the last line ends with the line end or not.
C22_Terminates ==
    (ReadFile /\ NoIncludeCycle) => ~query.ret.hang

\* the buffers that are closed when the call succeeds: the logical entries, and
\* for a file without a final line end those of the lines before the last line,
\* then the last line as it stands
ClosedBuffers(content) ==
    IF content = <<>> \/ content[Len(content)] = LineEOL[1] THEN LogicalEntries(content)
    ELSE LogicalEntries(Take(content, Len(content) - Len(Split(content, LineEOL)[Len(Split(content, LineEOL))])))
            \o <<Split(content, LineEOL)[Len(Split(content, LineEOL))]>>

\* the buffer is cut at the delimiter at offset i
CutAt(buffer, i, key, value) ==
    /\ buffer[i] = KVDelim[1]
    /\ \A j \in 1..(i - 1) : buffer[j] # KVDelim[1]
    /\ key = SelectSeq(SubSeq(buffer, 1, i - 1), LAMBDA c : c # " ")
    /\ \E n \in 0..(Len(buffer) - i) :
          /\ \A j \in 1..n : buffer[i + j] = " "
          /\ value = SubSeq(buffer, i + n + 1, Len(buffer))
          /\ value = <<>> \/ value[1] # " "

\* key and value are the two sides of the first delimiter of the buffer: the key
\* without its spaces, the value without the spaces at its front
SplitsAtFirst(buffer, key, value) == \E i \in 1..Len(buffer) : CutAt(buffer, i, key, value)

\* no closed buffer is an include
NoInclude(buffers) == \A i \in 1..Len(buffers) : ~IsInclude(buffers[i])

\* the keys and values are those of the buffers, one for one
BuffersSplit(buffers) ==
    (ReadOK /\ NoInclude(buffers)) =>
        /\ Len(query.ret.keys[1]) = Len(buffers)
        /\ Len(query.ret.vals[1]) = Len(buffers)
        /\ \A i \in 1..Len(buffers) :
              SplitsAtFirst(buffers[i], query.ret.keys[1][i], query.ret.vals[1][i])

\* no key holds a space or the delimiter and no value starts with a space
SidesTrimmed ==
    ReadOK =>
        /\ \A i \in 1..Len(query.ret.keys[1]) :
              ~Contains(query.ret.keys[1][i], <<" ">>) /\ ~Contains(query.ret.keys[1][i], KVDelim)
        /\ \A i \in 1..Len(query.ret.vals[1]) :
              query.ret.vals[1][i] = <<>> \/ query.ret.vals[1][i][1] # " "

\* C23: each closed buffer is split at the first delimiter only, so that later
\* delimiters stay in the value; the key is the text before it without any space,
\* the value the text after it without the spaces at its front, those at its end
\* kept.
C23_EntrySplitting ==
    ReadFile => BuffersSplit(ClosedBuffers(files[query.arg])) /\ SidesTrimmed

\* an entry with a space in its key, two delimiters and a space at its end was read
C23_Witness ==
    /\ ReadFile
    /\ ReadOK
    /\ NoInclude(ClosedBuffers(files[query.arg]))
    /\ \E i \in 1..Len(query.ret.keys[1]) :
          /\ query.ret.keys[1][i] = <<"b", "c">>
          /\ query.ret.vals[1][i] = <<"5", ":", "6", " ">>

-----------------------------------------------------------------------------
(* Further properties of ProcessKVs                                        *)

\* ProcessKVs has processed X, X1, X and nothing after
QuirkInput(X) ==
    /\ pc # "ProcessKVs"
    /\ keys # None
    /\ indx = 3
    /\ Len(keys[1]) >= 3
    /\ SubSeq(keys[1], 1, 3) = <<X, X \o <<"1">>, X>>

\* X1 holds the value of the first X, X2 that of the second, and these are all
\* the keys: neither the bare X is one nor is the value of the literal X1 kept
QuirkResult(X) ==
    /\ DOMAIN kv = {X \o <<"1">>, X \o <<"2">>}
    /\ kv[X \o <<"1">>] = Some(Populate(vals[1][1]))
    /\ kv[X \o <<"2">>] = Some(Populate(vals[1][3]))
    /\ Populate(vals[1][2]) \notin {Populate(vals[1][1]), Populate(vals[1][3])} =>
          \A k \in DOMAIN kv : kv[k] # Some(Populate(vals[1][2]))

\* C24: when the input to ProcessKVs holds a key X, then the literal key X1, then
\* X again, the rename of the first X to X1 overwrites the literal X1: X1 holds
\* the value of the first X, X2 that of the second X, there is no bare X, and the
\* value of the literal X1 is no longer in the Document.
C24_RenameQuirk ==
    \A X \in KeyPool : QuirkInput(X) => QuirkResult(X)

\* a, a1, a were processed, the literal a1 with a value of its own
C24_Witness ==
    /\ QuirkInput(<<"a">>)
    /\ QuirkResult(<<"a">>)
    /\ vals[1][2] # vals[1][1]
    /\ vals[1][2] # vals[1][3]

\* C25: after ProcessKVs has processed any prefix of any input, every key of the
\* Document maps to a non-nil Value, so that Get returns no nil for a key that is
\* there.
C25_NoNilEntry ==
    pc \in {"loop", "done", "queried"} =>
        \A k \in DOMAIN kv : kv[k] # None /\ Get(kv, k) # None

-----------------------------------------------------------------------------
(* Further properties of CheckLegals                                       *)

\* the entry of k satisfies the type and values rules of the key root
SatisfiesRulesOf(lgls, root, k) ==
    /\ kv[k] # None
    /\ HasRule(lgls, root, type, int) => kv[k][1].AsInt # None
    /\ \A vs \in RuleValues(lgls, root, values) :
          \E i \in 1..Len(Split(vs, <<",">>)) : Split(vs, <<",">>)[i] = kv[k][1].AsString

\* nil is returned only if every key of the group of a key that admits
\* duplicates satisfies the rules of this key
GroupRulesApplied(lgls) ==
    IsNil =>
        \A root \in RuleKeys(lgls) :
            HasRule(lgls, root, multiple, yes) =>
                \A k \in GroupKeys(root) : SatisfiesRulesOf(lgls, root, k)

\* C26: CheckLegals applies the rules type-int, values and requires of a key with
\* multiple-yes to every key root1..rootn of its duplicate group: it returns nil
\* only if each occurrence of the key satisfies the type and values rules of the
\* key.
C26_GroupRules ==
    Checked => GroupRulesApplied(BuildLegals(query.arg))

\* C27: CheckLegals is deterministic: for a Document and a rule text it returns the
\* same outcome, nil or the same error message, on every run, whatever the order
\* in which the keys of the Document are iterated, also when several keys violate
\* their rules at once.
C27_Deterministic ==
    Checked => CheckLegals(kv, query.arg) = {[panic |-> query.panic, err |-> query.ret]}

-----------------------------------------------------------------------------
(* Further properties of the queries                                       *)

\* C28: Unknown returns normally, without an index out of range, for every universe
\* string and every Document, also for a universe with an empty entry (a comma at
\* its front or end, or two in a row); an empty entry matches no key.
C28_UnknownReturns ==
    Queried("Unknown") =>
        /\ ~query.panic
        /\ query.arg # <<>> =>
              query.ret = IF Uncovered(query.arg) = {} THEN None ELSE Some(Uncovered(query.arg))

====
